---- MODULE Spec2Model ----
(***************************************************************************)
(* A model of flitz, a small file explorer: its event bus                  *)
(* (flitz/events.py), the path arithmetic and listings of its file-system  *)
(* adapters (flitz/file_systems), and the controller actions that delete,  *)
(* create, rename, copy, paste, list and search entries, show the          *)
(* properties of a selection, navigate between folders, bookmarks and      *)
(* mounts, open the context menu and change the font size.                 *)
(*                                                                         *)
(* Strings are sequences of one-character strings, so that the string      *)
(* operations of the code (split, join, endswith, lower, comparison) are   *)
(* computed and not assumed.                                               *)
(***************************************************************************)
EXTENDS Integers, Sequences, FiniteSets, TLC

VARIABLES
    \* ---- event bus (flitz/events.py) ----
    listeners,      \* channel -> sequence of callbacks: Event.listeners
    registered,     \* history: the consumed_by calls, in the order they were made
    stack,          \* the active produce() calls, outermost first
    calls,          \* history: the listener invocations of the current delivery
    delivery,       \* "idle" | "delivering" | "returned" | "raised"
    channel,        \* history: the channel the producer last called produce() on
    \* ---- path arithmetic of the adapters (file_systems/basic_fs.py, ftp_fs.py) ----
    pAdapter,       \* "local" | "FTP": the adapter whose functions are applied
    pPath,          \* the path the last call returned
    pOp,            \* "start" | "go_up" | "join": the last call
    pArg,           \* the path the last call was given
    pJoinDir,       \* go_up applied to the result of get_absolute_path(d, n): d
    \* ---- the file system and the controller's view of it ----
    nodes,          \* the entries below the mount root: a set of [path, kind, size]
    current_path,   \* the directory shown, as the components of the Path
    show_hidden,    \* cfg.show_hidden_files
    cache,          \* FTPFileSystem._cache: a set of <<path, entry>>
    rows,           \* the rows of the details pane (self.tree), top to bottom
    errors,         \* the error dialogs the last handler showed, in order
    listed,         \* what the last list_contents call returned
    search_mode,    \* FileExplorer.search_mode
    url_bar_label,  \* the text of the label in front of the URL bar
    op,             \* history: the last handler or call, with its inputs
    \* ---- the other views of the controller, and what the OS refuses ----
    url_bar,        \* the text of the URL bar
    title,          \* the window title
    bookmarks,      \* self.bookmarks: a set of [label, path], path a str
    highlighted,    \* the labels of the bookmarks selected in the bookmarks tree
    current_file_system, \* the name of the mount chosen in the navigation pane
    unreadable,     \* the folders whose listing the OS refuses (PermissionError)
    \* ---- the rest of the session: menu, font, selection, clipboard ----
    context_menu,   \* FileExplorer.context_menu: "None" or the state of the tk.Menu
    font_size,      \* cfg.font_size
    selected,       \* the names of the rows selected in the details pane, in order
    clipboard_data, \* CopyPasteMixIn.clipboard_data: the names copied, in order
    cwd             \* the working directory of the process

evVars == <<listeners, registered, stack, calls, delivery, channel>>

pathVars == <<pAdapter, pPath, pOp, pArg, pJoinDir>>

fsVars == <<nodes, current_path, show_hidden, cache, rows, errors, listed,
            search_mode, url_bar_label, op>>

navVars == <<url_bar, title, bookmarks, highlighted, current_file_system, unreadable>>

uiVars == <<context_menu, font_size, selected, clipboard_data, cwd>>

vars == <<evVars, pathVars, fsVars, navVars, uiVars>>

NotEv == <<pathVars, fsVars, navVars, uiVars>>

NotPath == <<evVars, fsVars, navVars, uiVars>>

NotFs == <<evVars, pathVars, navVars, uiVars>>

NotFsNav == <<evVars, pathVars, uiVars>>

\* ------------------------------------------------------------------------
\* Bounds
\* ------------------------------------------------------------------------
MaxListeners == 3   \* consumed_by calls made in a run, over all channels
MaxDepth == 3       \* nested produce() calls followed
MaxPathLen == 7     \* characters of the paths get_absolute_path is asked to build
MaxNodes == 3       \* entries of the file system below its root
MaxNavNodes == 2    \* entries of the file system the navigation runs over

\* Config.font_size as the settings file is created with.
DefaultFontSize == 14

MIN_FONT_SIZE == 4

MAX_FONT_SIZE == 40

\* The session as __init__ leaves it, with the font size of the settings: no
\* context menu yet, nothing selected, nothing copied.
UiStartWith(size) ==
    /\ context_menu = "None"
    /\ font_size = size
    /\ selected = <<>>
    /\ clipboard_data = <<>>
    /\ cwd = <<>>

UiStart == UiStartWith(DefaultFontSize)

\* The file system with nothing in it and nothing shown.
FsIdleWith(size) ==
    /\ UiStartWith(size)
    /\ url_bar = <<"/">>
    /\ title = <<"/">>
    /\ bookmarks = {}
    /\ highlighted = {}
    /\ current_file_system = "/"
    /\ unreadable = {}
    /\ nodes = {}
    /\ current_path = <<>>
    /\ show_hidden = FALSE
    /\ cache = {}
    /\ rows = <<>>
    /\ errors = <<>>
    /\ listed = <<>>
    /\ search_mode = FALSE
    /\ url_bar_label = "Location:"
    /\ op = [name |-> "init"]

FsIdle == FsIdleWith(DefaultFontSize)

\* ------------------------------------------------------------------------
\* Event bus
\* ------------------------------------------------------------------------
Channels == {"current_path_changed", "current_folder_changed"}

\* The callbacks a client may register, as what they do when invoked:
\*   f, g  return normally
\*   r     raises
\*   u     calls produce() on its own channel, unconditionally
\*   w     calls produce() on its own channel unless a delivery is already nested
Callbacks == {"f", "g", "r", "u", "w"}

Kind(cb) ==
    CASE cb = "r" -> "raise"
      [] cb = "u" -> "reenter"
      [] cb = "w" -> "guarded"
      [] OTHER -> "ok"

\* What the callback does when invoked with `depth` produce() calls active.
Behaviour(cb, depth) ==
    CASE Kind(cb) = "raise" -> "raise"
      [] Kind(cb) = "reenter" -> "produce"
      [] Kind(cb) = "guarded" /\ depth = 1 -> "produce"
      [] OTHER -> "return"

Event_init == [ch \in Channels |-> <<>>]

\* Variant of consumed_by that registers at the front.
consumed_by_prepend(ls, consumer) == <<consumer>> \o ls

\* Event.consumed_by: the consumer is appended to the list.
consumed_by(ls, consumer) == Append(ls, consumer)

\* A produce() call that has just started its for loop.
Frame(ch) == [ch |-> ch, i |-> 1]

\* The listener of the top frame returned: the for loop moves on.
Advance(stk) == [stk EXCEPT ![Len(stk)].i = @ + 1]


ListenerReturns(stk) == Advance(stk)

\* Variant of Reenter with a guard: a nested produce() returns at once.
ReenterGuarded(stk, ch) == Advance(stk)

\* produce() called by a listener that is itself being delivered to: the call is
\* an ordinary call, a new for loop over the same list starts.
Reenter(stk, ch) == Append(stk, Frame(ch))

\* Variant of Raise in which produce() catches and goes on.
RaiseSwallowed(stk) == Advance(stk)

\* A listener raised: nothing in produce() catches, every active produce() call
\* is left.
Raise(stk) == <<>>

Top == stack[Len(stack)]

\* The client registers a callback; done between deliveries (the record of the
\* last delivery is dropped).
ConsumedBy(ch, cb) ==
    /\ stack = <<>>
    /\ Len(registered) < MaxListeners
    /\ listeners' = [listeners EXCEPT ![ch] = consumed_by(@, cb)]
    /\ registered' = Append(registered, [ch |-> ch, cb |-> cb])
    /\ calls' = <<>>
    /\ delivery' = "idle"
    /\ UNCHANGED <<stack, channel>>
    /\ UNCHANGED NotEv

\* A producer (not a listener) calls produce() on a channel.
Produce(ch) ==
    /\ stack = <<>>
    /\ stack' = <<Frame(ch)>>
    /\ calls' = <<>>
    /\ delivery' = "delivering"
    /\ channel' = ch
    /\ UNCHANGED <<listeners, registered>>
    /\ UNCHANGED NotEv

\* One iteration of `for listener in self.listeners: listener()`.
Invoke ==
    /\ stack # <<>>
    /\ Top.i <= Len(listeners[Top.ch])
    /\ LET cb == listeners[Top.ch][Top.i]
           b == Behaviour(cb, Len(stack))
       IN /\ calls' = Append(calls, [cb |-> cb, ch |-> Top.ch, depth |-> Len(stack)])
          /\ CASE b = "return" ->
                    /\ stack' = ListenerReturns(stack)
                    /\ UNCHANGED delivery
               [] b = "raise" ->
                    /\ stack' = Raise(stack)
                    /\ delivery' = IF stack' = <<>> THEN "raised" ELSE delivery
               [] b = "produce" ->
                    /\ Len(stack) < MaxDepth
                    /\ stack' = Reenter(stack, Top.ch)
                    /\ UNCHANGED delivery
    /\ UNCHANGED <<listeners, registered, channel>>
    /\ UNCHANGED NotEv

\* The for loop of the innermost produce() is exhausted: it returns, to the
\* listener that called it (which then returns too) or to the producer.
Return ==
    /\ stack # <<>>
    /\ Top.i > Len(listeners[Top.ch])
    /\ LET rest == SubSeq(stack, 1, Len(stack) - 1)
       IN IF rest = <<>>
          THEN /\ stack' = <<>>
               /\ delivery' = "returned"
          ELSE /\ stack' = ListenerReturns(rest)
               /\ UNCHANGED delivery
    /\ UNCHANGED <<listeners, registered, calls, channel>>
    /\ UNCHANGED NotEv

\* The event bus before any registration.
EvStart ==
    /\ listeners = Event_init
    /\ registered = <<>>
    /\ stack = <<>>
    /\ calls = <<>>
    /\ delivery = "idle"
    /\ channel = "none"

EvNext ==
    \/ \E ch \in Channels, cb \in Callbacks : ConsumedBy(ch, cb)
    \/ \E ch \in Channels : Produce(ch)
    \/ Invoke
    \/ Return

\* ------------------------------------------------------------------------
\* Strings
\* ------------------------------------------------------------------------
Slash == "/"

EndsWith(s, c) == s # <<>> /\ s[Len(s)] = c

StartsWith(s, c) == s # <<>> /\ s[1] = c

\* str.rfind(c) + 1: the position of the last c in s, 0 if there is none.
RFind1(s, c) ==
    LET at == {k \in 1..Len(s) : s[k] = c}
    IN IF at = {} THEN 0 ELSE CHOOSE k \in at : \A k2 \in at : k2 <= k

\* str.rstrip(c)
RECURSIVE RStrip(_, _)
RStrip(s, c) ==
    IF EndsWith(s, c) THEN RStrip(SubSeq(s, 1, Len(s) - 1), c) ELSE s

\* str.split(c): the pieces between the occurrences of c, empty ones included.
RECURSIVE SplitAcc(_, _, _, _)
SplitAcc(s, c, done, piece) ==
    IF s = <<>> THEN Append(done, piece)
    ELSE IF Head(s) = c THEN SplitAcc(Tail(s), c, Append(done, piece), <<>>)
    ELSE SplitAcc(Tail(s), c, done, Append(piece, Head(s)))

Split(s, c) == SplitAcc(s, c, <<>>, <<>>)

\* c.join(parts)
RECURSIVE Join(_, _)
Join(parts, c) ==
    IF parts = <<>> THEN <<>>
    ELSE IF Len(parts) = 1 THEN parts[1]
    ELSE parts[1] \o <<c>> \o Join(Tail(parts), c)

AllSlashes(s) == \A k \in 1..Len(s) : s[k] = Slash

\* ------------------------------------------------------------------------
\* Path arithmetic of the adapters
\* ------------------------------------------------------------------------
\* posixpath.dirname, which LocalFileSystem.go_up returns.
Local_go_up(path) ==
    LET head == SubSeq(path, 1, RFind1(path, Slash))
    IN IF head # <<>> /\ ~AllSlashes(head) THEN RStrip(head, Slash) ELSE head

\* posixpath.join(path, name), which LocalFileSystem.get_absolute_path returns.
Local_get_absolute_path(path, name) ==
    IF StartsWith(name, Slash) THEN name
    ELSE IF path = <<>> \/ EndsWith(path, Slash) THEN path \o name
    ELSE path \o <<Slash>> \o name

\* Variant of FTPFileSystem.go_up without its test for "/".
FTP_go_up_no_root_case(path) ==
    LET parts == Split(path, Slash)
    IN Join(SubSeq(parts, 1, Len(parts) - 1), Slash)

\* FTPFileSystem.go_up
FTP_go_up(path) ==
    IF path = <<Slash>> THEN path
    ELSE LET parts == Split(path, Slash)
         IN Join(SubSeq(parts, 1, Len(parts) - 1), Slash)

\* FTPFileSystem.get_absolute_path
FTP_get_absolute_path(path, name) ==
    IF EndsWith(path, Slash) THEN path \o name
    ELSE path \o <<Slash>> \o name

go_up(adapter, path) ==
    IF adapter = "local" THEN Local_go_up(path) ELSE FTP_go_up(path)

get_absolute_path(adapter, path, name) ==
    IF adapter = "local" THEN Local_get_absolute_path(path, name)
    ELSE FTP_get_absolute_path(path, name)

Adapters == {"local", "FTP"}

\* The simple names joined to paths.
SimpleNames == {<<"a">>, <<"b">>, <<"c", "d">>}

NoPath == <<"?">>

\* A client at the mount root "/" of an adapter.
PathStart(adapter) ==
    /\ pAdapter = adapter
    /\ pPath = <<Slash>>
    /\ pOp = "start"
    /\ pArg = NoPath
    /\ pJoinDir = NoPath

\* fs.go_up(path) of the path the client holds.
GoUp ==
    /\ pPath' = go_up(pAdapter, pPath)
    /\ pArg' = pPath
    /\ pOp' = "go_up"
    /\ pJoinDir' = IF pOp = "join" THEN pArg ELSE NoPath
    /\ UNCHANGED pAdapter
    /\ UNCHANGED NotPath

\* fs.get_absolute_path(path, name) of the path the client holds.
GetAbsolutePath(name) ==
    /\ Len(pPath) + 1 + Len(name) <= MaxPathLen
    /\ pPath' = get_absolute_path(pAdapter, pPath, name)
    /\ pArg' = pPath
    /\ pOp' = "join"
    /\ pJoinDir' = NoPath
    /\ UNCHANGED pAdapter
    /\ UNCHANGED NotPath

PathInit == (\E a \in Adapters : PathStart(a)) /\ EvStart /\ FsIdle

PathNext ==
    \/ GoUp
    \/ \E n \in SimpleNames : GetAbsolutePath(n)

SpecPaths == PathInit /\ [][PathNext]_vars

\* C8: go_up of the mount root "/" is "/", for both adapters.
C8_GoUpAtRootStays ==
    (pOp = "go_up" /\ pArg = <<Slash>>) => pPath = <<Slash>>

\* go_up was applied to the mount root "/" of the FTP adapter.
C8_Witness ==
    /\ pOp = "go_up"
    /\ pArg = <<Slash>>
    /\ pJoinDir = NoPath
    /\ pPath = <<Slash>>
    /\ pAdapter = "FTP"

\* C9: for both adapters go_up(get_absolute_path(d, n)) = d, and go_up of a path
\* other than the root is an absolute path (so that repeated go_up arrives at "/").
C9_GoUpIsParent ==
    /\ (pOp = "go_up" /\ pJoinDir # NoPath) => pPath = pJoinDir
    /\ (pOp = "go_up" /\ StartsWith(pArg, Slash)) => StartsWith(pPath, Slash)

\* C9 for the local adapter alone.
C9_LocalGoUpIsParent ==
    pAdapter = "local" => C9_GoUpIsParent

\* ------------------------------------------------------------------------
\* The file system: a tree of files and folders below the root
\* ------------------------------------------------------------------------
\* The names entries have. "Ba" sorts before "a" by code point and after it
\* when case is ignored.
Names == {<<"a">>, <<"B", "a">>}

Root == <<>>

Node(path, kind) ==
    [path |-> path, kind |-> kind, size |-> IF kind = "file" THEN 1 ELSE 0]

Last(s) == s[Len(s)]

Parent(p) == SubSeq(p, 1, Len(p) - 1)

Exists(t, p) == p = Root \/ \E n \in t : n.path = p

IsDir(t, p) == p = Root \/ \E n \in t : n.path = p /\ n.kind = "dir"

IsFile(t, p) == \E n \in t : n.path = p /\ n.kind = "file"

SizeOf(t, p) == (CHOOSE n \in t : n.path = p).size

Dirs(t) == {Root} \cup {n.path : n \in {m \in t : m.kind = "dir"}}

\* The paths of the immediate children of directory d, and of all below it.
Children(t, d) ==
    {n.path : n \in {m \in t : Len(m.path) = Len(d) + 1 /\ Parent(m.path) = d}}

Descendants(t, d) ==
    {n.path : n \in {m \in t : Len(m.path) > Len(d)
                               /\ SubSeq(m.path, 1, Len(d)) = d}}

\* The trees of at most n entries with names of `names`.
Grow(names, ts) ==
    ts \cup UNION {
        {t \cup {Node(Append(x[1], x[2]), x[3])} :
            x \in {y \in Dirs(t) \X names \X {"dir", "file"} :
                      ~Exists(t, Append(y[1], y[2]))}} : t \in ts}

RECURSIVE Trees(_, _)
Trees(names, n) == IF n = 0 THEN {{}} ELSE Grow(names, Trees(names, n - 1))

\* The orders in which a directory scan may enumerate a set of entries.
Perms(S) ==
    {s \in [1..Cardinality(S) -> S] :
        \A i, j \in 1..Cardinality(S) : i # j => s[i] # s[j]}

SomeOrder(S) == CHOOSE s \in Perms(S) : TRUE

\* str(Path): the components joined with "/", after a leading "/".
PathStr(p) == IF p = Root THEN <<Slash>> ELSE <<Slash>> \o Join(p, Slash)

\* Path(str) of an absolute path, as the file system resolves it: its non-empty
\* components.
PathOf(str) == SelectSeq(Split(str, Slash), LAMBDA piece : piece # <<>>)

\* Path.name
PathName(p) == IF p = Root THEN <<>> ELSE Last(p)

\* ------------------------------------------------------------------------
\* Entries and listings (file_systems/__init__.py, basic_fs.py, ftp_fs.py)
\* ------------------------------------------------------------------------
File(name, path, file_size) ==
    [cls |-> "File", name |-> name, path |-> path, file_size |-> file_size]

Folder(name, path) == [cls |-> "Folder", name |-> name, path |-> path]

\* LocalFileSystem._handle_entry_in_list_contents, for one enumerated Path.
handle_entry_in_list_contents(t, item) ==
    IF IsDir(t, item)
    THEN Folder(PathName(item), PathStr(item))
    ELSE File(PathName(item), PathStr(item), SizeOf(t, item))

\* What p.rglob("*") and p.iterdir() enumerate, in an order the OS chooses.
Local_scan(t, path, recursive) ==
    IF recursive THEN Descendants(t, PathOf(path)) ELSE Children(t, PathOf(path))

\* LocalFileSystem.list_contents, given the enumeration `found` of the scan.
Local_list_contents(t, found) ==
    [k \in 1..Len(found) |-> handle_entry_in_list_contents(t, found[k])]

\* self._cache[key] = entry
CachePut(c, key, entry) == {x \in c : x[1] # key} \cup {<<key, entry>>}

\* What ftp.cwd(path); ftp.mlsd() report: the children of path.
FTP_mlsd(t, path) == Children(t, PathOf(path))

\* FTPFileSystem.list_contents, given the order `items` of the MLSD reply. The
\* call made for a folder when recursive is set adds to the cache; what it
\* returns is dropped.
RECURSIVE FTP_list_loop(_, _, _, _, _, _)
FTP_list_loop(t, path, recursive, items, contents, c) ==
    IF items = <<>> THEN [contents |-> contents, cache |-> c]
    ELSE LET item == Head(items)
             name == PathName(item)
             full_path == IF EndsWith(path, Slash) THEN path \o name
                          ELSE path \o <<Slash>> \o name
             entry == IF IsFile(t, item)
                      THEN File(name, full_path, SizeOf(t, item))
                      ELSE Folder(name, FTP_get_absolute_path(path, name))
             c1 == IF recursive /\ IsDir(t, item)
                   THEN FTP_list_loop(t, entry.path, TRUE,
                                      SomeOrder(FTP_mlsd(t, entry.path)), <<>>, c).cache
                   ELSE c
         IN FTP_list_loop(t, path, recursive, Tail(items),
                          Append(contents, entry), CachePut(c1, full_path, entry))

FTP_list_contents(t, path, recursive, items, c) ==
    FTP_list_loop(t, path, recursive, items, <<>>, c)

\* fs.list_contents of either adapter: [contents, cache].
list_contents(adapter, t, path, recursive, found, c) ==
    IF adapter = "local"
    THEN [contents |-> Local_list_contents(t, found), cache |-> c]
    ELSE FTP_list_contents(t, path, recursive, found, c)

\* The entries a list_contents call of the adapter gets enumerated.
Scan(adapter, t, path, recursive) ==
    IF adapter = "local" THEN Local_scan(t, path, recursive) ELSE FTP_mlsd(t, path)

\* ------------------------------------------------------------------------
\* Sorting and matching
\* ------------------------------------------------------------------------
\* ord(c) of the characters that occur.
Ord(c) ==
    CASE c = "." -> 46
      [] c = "/" -> 47
      [] c = "<" -> 60
      [] c = "A" -> 65
      [] c = "B" -> 66
      [] c = "a" -> 97
      [] c = "b" -> 98
      [] c = "c" -> 99
      [] c = "d" -> 100

\* s < t for Python strings: by code point, a proper prefix first.
RECURSIVE StrLess(_, _)
StrLess(s, t) ==
    IF t = <<>> THEN FALSE
    ELSE IF s = <<>> THEN TRUE
    ELSE IF Head(s) # Head(t) THEN Ord(Head(s)) < Ord(Head(t))
    ELSE StrLess(Tail(s), Tail(t))

\* Variant of KeyLess with the name as the only key.
KeyLessNameOnly(x, y) == StrLess(x.name, y.name)

\* key(x) < key(y) for key = lambda x: (isinstance(x, File), x.name)
KeyLess(x, y) ==
    \/ x.cls = "Folder" /\ y.cls = "File"
    \/ x.cls = y.cls /\ StrLess(x.name, y.name)

\* sorted(entries, key=...): stable, so an entry goes behind the entries that do
\* not sort after it.
RECURSIVE InsertSorted(_, _)
InsertSorted(out, e) ==
    IF out = <<>> THEN <<e>>
    ELSE IF KeyLess(e, Last(out))
         THEN Append(InsertSorted(SubSeq(out, 1, Len(out) - 1), e), Last(out))
         ELSE Append(out, e)

RECURSIVE SortedFrom(_, _)
SortedFrom(out, entries) ==
    IF entries = <<>> THEN out
    ELSE SortedFrom(InsertSorted(out, Head(entries)), Tail(entries))

sorted(entries) == SortedFrom(<<>>, entries)

\* str.lower()
LowerChar(c) ==
    CASE c = "A" -> "a"
      [] c = "B" -> "b"
      [] OTHER -> c

Lower(s) == [k \in 1..Len(s) |-> LowerChar(s[k])]

\* sub in s
Contains(sub, s) ==
    \E k \in 1..(Len(s) + 1) :
        k + Len(sub) - 1 <= Len(s) /\ SubSeq(s, k, k + Len(sub) - 1) = sub

\* search_term.lower() in entry.name.lower()
Matches(term, name) == Contains(Lower(term), Lower(name))

\* ------------------------------------------------------------------------
\* Hidden entries
\* ------------------------------------------------------------------------
\* LocalFileSystem.is_hidden and FileExplorer.is_hidden off Windows:
\* Path(path).name.startswith(".")
Local_is_hidden(path) == StartsWith(PathName(PathOf(path)), ".")

\* FTPFileSystem.is_hidden
FTP_is_hidden(path) == StartsWith(path, ".")

is_hidden(adapter, path) ==
    IF adapter = "local" THEN Local_is_hidden(path) ELSE FTP_is_hidden(path)

\* str(entry) of a File or Folder, which define no __str__: "<... object at 0x...>"
ObjectRepr(entry) == <<"<", ".", Head(entry.cls), ">">>

\* ------------------------------------------------------------------------
\* The details pane
\* ------------------------------------------------------------------------
\* A row of the tree view; `path` is not shown, it tells which entry the row is.
Row(entry) == [name |-> entry.name, type |-> entry.cls, path |-> entry.path]

RowsOf(entries) == [k \in 1..Len(entries) |-> Row(entries[k])]

\* The paths of a sequence of entries or rows, as a set.
PathsIn(seq) == {seq[k].path : k \in 1..Len(seq)}

NoRepeats(seq) == \A i, j \in 1..Len(seq) : i # j => seq[i].path # seq[j].path

\* FileExplorer.load_files (file_explorer.py): the rows inserted, given the
\* enumeration `found` of current_path.iterdir().
FileExplorer_load_files(t, found, show) ==
    LET entries == sorted(Local_list_contents(t, found))
    IN RowsOf(SelectSeq(entries,
                        LAMBDA e : ~(~show /\ Local_is_hidden(e.path))))

\* DetailsPaneMixIn.load_files (ui/details_pane.py): the rows inserted, given
\* what self.fs.list_contents(self.current_path) returned.
DetailsPane_load_files(adapter, contents, show) ==
    LET entries == sorted(contents)
    IN RowsOf(SelectSeq(entries,
                        LAMBDA e : ~(~show /\ is_hidden(adapter, ObjectRepr(e)))))

\* FileExplorer.search_files: filters the entries of the directory itself.
FileExplorer_search_files(t, found, search_term) ==
    LET entries == sorted(Local_list_contents(t, found))
    IN RowsOf(SelectSeq(entries, LAMBDA e : Matches(search_term, e.name)))

\* TkFrontend.make_search_view: filters what fs.list_contents(path,
\* recursive=True) returned.
make_search_view(contents, search_term) ==
    LET entries == sorted(contents)
    IN RowsOf(SelectSeq(entries, LAMBDA e : Matches(search_term, e.name)))

\* askstring returned None (the dialog was cancelled).
None == <<"None">>

\* "b" is in "Ba" when case is ignored, "A" in "a" and "Ba", "" in every name.
Terms == {<<"b">>, <<"A">>, <<>>}

\* cfg.window.title.format(current_path=current_path)
window_title(cp) == <<"f", "l", "i", "t", "z", ":", " ">> \o PathStr(cp)

\* add_bookmarks: "Home", and "Desktop" (here the folder "Ba" of home) if it is
\* a folder when the explorer starts.
Desktop == <<"B", "a">>

add_bookmarks(t, home) ==
    {[label |-> "Home", path |-> PathStr(home)]} \cup
    {[label |-> "Desktop", path |-> PathStr(Append(home, Desktop))] :
        x \in {y \in {Append(home, Desktop)} : IsDir(t, y)}}

\* FileExplorer.bookmarks_update: Path(path_str) == self.current_path, with
\* current_path a Path.
bookmarks_update(bms, cp) == {b.label : b \in {c \in bms : PathOf(c.path) = cp}}

\* The views of an explorer that has just started on current_path.
ViewsStart(homes) ==
    /\ url_bar = PathStr(current_path)
    /\ title = window_title(current_path)
    /\ bookmarks \in {add_bookmarks(nodes, home) : home \in homes}
    /\ highlighted = bookmarks_update(bookmarks, current_path)
    /\ current_file_system = "/"

\* The explorer opened on a directory of some file system: create_details_pane
\* has loaded the listing.
FsStart(names, shows) ==
    /\ nodes \in Trees(names, MaxNodes)
    /\ current_path \in Dirs(nodes)
    /\ show_hidden \in shows
    /\ cache = {}
    /\ rows = FileExplorer_load_files(nodes, SomeOrder(Children(nodes, current_path)),
                                      show_hidden)
    /\ errors = <<>>
    /\ listed = <<>>
    /\ search_mode = FALSE
    /\ url_bar_label = "Location:"
    /\ op = [name |-> "init"]
    /\ ViewsStart({Root})
    /\ unreadable = {}
    /\ UiStart

\* fs.list_contents(path, recursive) of an adapter, for a folder of the tree.
ListContents(adapter, dir, recursive) ==
    \E found \in Perms(Scan(adapter, nodes, PathStr(dir), recursive)) :
        LET r == list_contents(adapter, nodes, PathStr(dir), recursive, found, cache)
        IN /\ listed' = r.contents
           /\ cache' = r.cache
           /\ op' = [name |-> "list_contents", adapter |-> adapter, dir |-> dir,
                     recursive |-> recursive]
           /\ UNCHANGED <<nodes, current_path, show_hidden, rows, errors,
                          search_mode, url_bar_label>>
           /\ UNCHANGED NotFs

\* FileExplorer.load_files()
LoadFiles_FileExplorer ==
    \E found \in Perms(Children(nodes, current_path)) :
        /\ rows' = FileExplorer_load_files(nodes, found, show_hidden)
        /\ url_bar' = PathStr(current_path)
        /\ op' = [name |-> "load_files", view |-> "FileExplorer"]
        /\ UNCHANGED <<nodes, current_path, show_hidden, cache, errors, listed,
                       search_mode, url_bar_label>>
        /\ UNCHANGED <<title, bookmarks, highlighted, current_file_system, unreadable>>
        /\ UNCHANGED NotFsNav

\* DetailsPaneMixIn.load_files(), with self.fs an adapter over the file system.
LoadFiles_DetailsPane(adapter) ==
    \E found \in Perms(Scan(adapter, nodes, PathStr(current_path), FALSE)) :
        LET r == list_contents(adapter, nodes, PathStr(current_path), FALSE, found, cache)
        IN /\ rows' = DetailsPane_load_files(adapter, r.contents, show_hidden)
           /\ cache' = r.cache
           /\ op' = [name |-> "load_files", view |-> "DetailsPaneMixIn"]
           /\ UNCHANGED <<nodes, current_path, show_hidden, errors, listed,
                          search_mode, url_bar_label>>
           /\ UNCHANGED NotFs

\* FileExplorer.handle_search: the dialog returns search_term.
HandleSearch(search_term) ==
    \E found \in Perms(Children(nodes, current_path)) :
        /\ IF search_term # None
           THEN /\ rows' = FileExplorer_search_files(nodes, found, search_term)
                /\ url_bar_label' = "Search:"
                /\ search_mode' = TRUE
           ELSE UNCHANGED <<rows, url_bar_label, search_mode>>
        /\ op' = [name |-> "search", view |-> "FileExplorer", term |-> search_term,
                  adapter |-> "none"]
        /\ UNCHANGED <<nodes, current_path, show_hidden, cache, errors, listed>>
        /\ UNCHANGED NotFs

\* TkFrontend.make_search_view(current_path, search_term)
MakeSearchView(adapter, search_term) ==
    \E found \in Perms(Scan(adapter, nodes, PathStr(current_path), TRUE)) :
        LET r == list_contents(adapter, nodes, PathStr(current_path), TRUE, found, cache)
        IN /\ rows' = make_search_view(r.contents, search_term)
           /\ cache' = r.cache
           /\ op' = [name |-> "search", view |-> "TkFrontend", term |-> search_term,
                     adapter |-> adapter]
           /\ UNCHANGED <<nodes, current_path, show_hidden, errors, listed,
                          search_mode, url_bar_label>>
           /\ UNCHANGED NotFs

ListInit == FsStart(Names, {FALSE}) /\ EvStart /\ PathStart("local")

ListNext ==
    \E a \in Adapters, d \in Dirs(nodes), rec \in BOOLEAN : ListContents(a, d, rec)

SpecList == ListInit /\ [][ListNext]_vars

ViewNext ==
    \/ LoadFiles_FileExplorer
    \/ \E a \in Adapters : LoadFiles_DetailsPane(a)
    \/ \E term \in Terms \cup {None} : HandleSearch(term)
    \/ \E a \in Adapters, term \in Terms : MakeSearchView(a, term)

SpecViews == ListInit /\ [][ViewNext]_vars

\* ------------------------------------------------------------------------
\* Deletion (actions/deletion.py)
\* ------------------------------------------------------------------------
\* TkFrontend.details_pane_get_current_selection: the selected rows, top to
\* bottom, as str(Path(current_path) / name).
details_pane_get_current_selection(cp, rws, picked) ==
    LET idx == SelectSeq([k \in 1..Len(rws) |-> k], LAMBDA k : k \in picked)
    IN [k \in 1..Len(idx) |-> PathStr(Append(cp, rws[idx[k]].name))]

\* Path.unlink() or Path.rmdir() raises OSError: the OS denies it, or the
\* folder is not empty.
UnlinkRaises(t, p, denied) == p \in denied

RmdirRaises(t, p, denied) == p \in denied \/ Children(t, p) # {}

\* DeletionMixIn.delete_item, on st = [nodes, rows, errors, asked];
\* Path(current_path) / selected_file is selected_file, which is absolute.
delete_item(st, selected_file, denied, cp, show) ==
    LET file_path == PathOf(selected_file)
        failed == [st EXCEPT !.errors = Append(@, "Failed to delete")]
        reloaded(t) ==
            [nodes |-> t,
             rows |-> FileExplorer_load_files(t, SomeOrder(Children(t, cp)), show),
             errors |-> st.errors,
             asked |-> st.asked]
    IN IF IsFile(st.nodes, file_path)
       THEN IF UnlinkRaises(st.nodes, file_path, denied) THEN failed
            ELSE reloaded({n \in st.nodes : n.path # file_path})
       ELSE IF file_path # Root /\ IsDir(st.nodes, file_path)
       THEN IF RmdirRaises(st.nodes, file_path, denied) THEN failed
            ELSE reloaded({n \in st.nodes : n.path # file_path})
       ELSE reloaded(st.nodes)

\* Variant of confirm_delete_item whose loop ends at the first error.
RECURSIVE confirm_delete_item_until_error(_, _, _, _, _, _)
confirm_delete_item_until_error(st, selected_items, accepted, denied, cp, show) ==
    IF selected_items = <<>> \/ st.errors # <<>> THEN st
    ELSE confirm_delete_item_until_error(
            IF Head(selected_items) \in accepted
            THEN delete_item([st EXCEPT !.asked = Append(@, Head(selected_items))],
                             Head(selected_items), denied, cp, show)
            ELSE [st EXCEPT !.asked = Append(@, Head(selected_items))],
            Tail(selected_items), accepted, denied, cp, show)

\* Variant of confirm_delete_item that deletes without a confirmation.
RECURSIVE confirm_delete_item_unconfirmed(_, _, _, _, _, _)
confirm_delete_item_unconfirmed(st, selected_items, accepted, denied, cp, show) ==
    IF selected_items = <<>> THEN st
    ELSE confirm_delete_item_unconfirmed(
            delete_item([st EXCEPT !.asked = Append(@, Head(selected_items))],
                        Head(selected_items), denied, cp, show),
            Tail(selected_items), accepted, denied, cp, show)

\* DeletionMixIn.confirm_delete_item: the loop over the selection; `accepted` are
\* the entries whose confirmation dialog is answered with OK, st.asked the
\* entries a dialog was shown for.
RECURSIVE confirm_delete_item(_, _, _, _, _, _)
confirm_delete_item(st, selected_items, accepted, denied, cp, show) ==
    IF selected_items = <<>> THEN st
    ELSE confirm_delete_item(
            IF Head(selected_items) \in accepted
            THEN delete_item([st EXCEPT !.asked = Append(@, Head(selected_items))],
                             Head(selected_items), denied, cp, show)
            ELSE [st EXCEPT !.asked = Append(@, Head(selected_items))],
            Tail(selected_items), accepted, denied, cp, show)

Range(seq) == {seq[k] : k \in 1..Len(seq)}

\* The delete key: some rows are selected, some of the dialogs are confirmed and
\* the OS denies some of the deletions.
ConfirmDeleteItem ==
    \E picked \in SUBSET (1..Len(rows)) :
      LET selected_items == details_pane_get_current_selection(current_path, rows, picked)
      IN \E accepted \in SUBSET Range(selected_items) :
           \E denied \in SUBSET {PathOf(f) : f \in accepted} :
             LET st == confirm_delete_item(
                          [nodes |-> nodes, rows |-> rows, errors |-> <<>>,
                           asked |-> <<>>],
                          selected_items, accepted, denied, current_path, show_hidden)
             IN /\ nodes' = st.nodes
                /\ rows' = st.rows
                /\ errors' = st.errors
                /\ op' = [name |-> "delete", selection |-> selected_items,
                          accepted |-> accepted, denied |-> denied,
                          asked |-> st.asked]
                /\ UNCHANGED <<current_path, show_hidden, cache, listed,
                               search_mode, url_bar_label>>
                /\ UNCHANGED NotFs

\* Three names, for selections of three entries.
DeleteNames == {<<"a">>, <<"B", "a">>, <<"b">>}

DeleteInit == FsStart(DeleteNames, {FALSE}) /\ EvStart /\ PathStart("local")

DeleteNext == ConfirmDeleteItem

SpecDelete == DeleteInit /\ [][DeleteNext]_vars

\* The selected entries whose deletion raises OSError in file system t.
FailingDeletions(t, selection, denied) ==
    {f \in Range(selection) :
        \/ PathOf(f) \in denied
        \/ IsDir(t, PathOf(f)) /\ Children(t, PathOf(f)) # {}}

\* C4: when every confirmation of a delete is accepted and exactly one of the
\* selected entries cannot be deleted, the others are all removed, wherever the
\* failing one is in the selection, one error message is shown, and the listing
\* afterwards is the directory without the removed entries.
C4_DeleteOneFailure ==
    [][LET sel == op'.selection
           failing == FailingDeletions(nodes, sel, op'.denied)
           gone == {PathOf(f) : f \in Range(sel) \ failing}
       IN (/\ op'.name = "delete"
           /\ sel # <<>>
           /\ op'.accepted = Range(sel)
           /\ Cardinality(failing) = 1)
          => /\ nodes' = {n \in nodes : n.path \notin gone}
             /\ Len(errors') = 1
             /\ PathsIn(rows') = {PathStr(q) : q \in Children(nodes', current_path)}
             /\ PathsIn(rows') \cap {PathStr(q) : q \in gone} = {}
             /\ Len(rows') = Len(rows) - Cardinality(gone)]_vars

\* Three entries were selected and confirmed, and the second of them, a folder
\* that is not empty or one the OS protects, is the only one left.
C4_Witness ==
    /\ op.name = "delete"
    /\ Len(op.selection) = 3
    /\ op.accepted = Range(op.selection)
    /\ Len(errors) = 1
    /\ Len(rows) = 1
    /\ PathsIn(rows) = {op.selection[2]}

\* C30: confirm_delete_item shows one confirmation dialog for each selected
\* entry, in the order of the selection and also after a declined one, and
\* removes an entry only if it is selected and its own dialog was accepted:
\* declined entries and entries that are not selected stay, and with an empty
\* selection no dialog is shown and nothing is removed.
C30_DeleteOnlyConfirmed ==
    [][op'.name = "delete"
       => /\ op'.asked = op'.selection
          /\ nodes' \subseteq nodes
          /\ \A n \in nodes \ nodes' :
                /\ PathStr(n.path) \in Range(op'.selection)
                /\ PathStr(n.path) \in op'.accepted
          /\ op'.selection = <<>> => nodes' = nodes /\ op'.asked = <<>>]_vars

\* Three entries were selected, the dialog of the second was declined and the
\* other two accepted: the second is the only one left.
C30_Witness ==
    /\ op.name = "delete"
    /\ Len(op.selection) = 3
    /\ op.accepted = {op.selection[1], op.selection[3]}
    /\ op.asked = op.selection
    /\ errors = <<>>
    /\ PathsIn(rows) = {op.selection[2]}
    /\ Cardinality(nodes) = 1

\* ------------------------------------------------------------------------
\* Creating an empty file (file_explorer.py)
\* ------------------------------------------------------------------------
\* `with new_file_path.open("w"): pass`: the file exists afterwards and is empty.
OpenForWriting(t, p) ==
    {n \in t : n.path # p} \cup {[path |-> p, kind |-> "file", size |-> 0]}

\* open("w") raises OSError: the OS denies it, or the path is a folder.
OpenRaises(t, p, denied) == denied \/ IsDir(t, p)

\* Variant of create_empty_file without the test new_file_path.exists().
create_empty_file_unchecked(st, file_name, denied, cp, show) ==
    IF file_name = None \/ file_name = <<>> THEN st
    ELSE LET new_file_path == Append(cp, file_name)
         IN IF OpenRaises(st.nodes, new_file_path, denied)
            THEN [st EXCEPT !.errors = Append(@, "Failed to create file")]
            ELSE LET t == OpenForWriting(st.nodes, new_file_path)
                 IN [nodes |-> t,
                     rows |-> FileExplorer_load_files(t, SomeOrder(Children(t, cp)), show),
                     errors |-> st.errors]

\* FileExplorer.create_empty_file, on st = [nodes, rows, errors], when the dialog
\* returns file_name.
create_empty_file(st, file_name, denied, cp, show) ==
    IF file_name = None \/ file_name = <<>> THEN st
    ELSE LET new_file_path == Append(cp, file_name)
         IN IF Exists(st.nodes, new_file_path)
            THEN [st EXCEPT !.errors = Append(@, "File already exists.")]
            ELSE IF OpenRaises(st.nodes, new_file_path, denied)
            THEN [st EXCEPT !.errors = Append(@, "Failed to create file")]
            ELSE LET t == OpenForWriting(st.nodes, new_file_path)
                 IN [nodes |-> t,
                     rows |-> FileExplorer_load_files(t, SomeOrder(Children(t, cp)), show),
                     errors |-> st.errors]

\* The context-menu item "Create Empty File". The file system holds at most
\* MaxNodes entries.
CreateEmptyFile(file_name, denied) ==
    LET st == create_empty_file([nodes |-> nodes, rows |-> rows, errors |-> <<>>],
                                file_name, denied, current_path, show_hidden)
    IN /\ Cardinality(st.nodes) <= MaxNodes
       /\ nodes' = st.nodes
       /\ rows' = st.rows
       /\ errors' = st.errors
       /\ op' = [name |-> "create_empty_file", file_name |-> file_name,
                 denied |-> denied]
       /\ UNCHANGED <<current_path, show_hidden, cache, listed,
                      search_mode, url_bar_label>>
       /\ UNCHANGED NotFs

\* ------------------------------------------------------------------------
\* Creating a folder (file_systems/*.py, file_explorer.py)
\* ------------------------------------------------------------------------
\* The exception Path(p).mkdir(exist_ok=False) raises, or "none".
MkdirRaises(t, p, denied) ==
    IF Exists(t, p) THEN "FileExistsError"
    ELSE IF ~IsDir(t, Parent(p)) THEN "FileNotFoundError"
    ELSE IF denied THEN "PermissionError"
    ELSE "none"

Mkdir(t, p) == t \cup {Node(p, "dir")}

\* LocalFileSystem.create_folder: the file system afterwards and the exception
\* that leaves the call.
Local_create_folder(t, path, denied) ==
    LET e == MkdirRaises(t, PathOf(path), denied)
    IN [nodes |-> IF e = "none" THEN Mkdir(t, PathOf(path)) ELSE t,
        raised |-> e,
        logged |-> "none"]

\* FTPFileSystem.create_folder: ftp.mkd raises error_perm where mkdir would
\* raise; `except Exception` logs it and the call returns.
FTP_create_folder(t, path, denied) ==
    LET e == MkdirRaises(t, PathOf(path), denied)
    IN [nodes |-> IF e = "none" THEN Mkdir(t, PathOf(path)) ELSE t,
        raised |-> "none",
        logged |-> IF e = "none" THEN "none" ELSE "Permission denied"]

fs_create_folder(adapter, t, path, denied) ==
    IF adapter = "local" THEN Local_create_folder(t, path, denied)
    ELSE FTP_create_folder(t, path, denied)

\* The text FileExplorer.create_folder shows for an OSError e: the one template
\* f"Failed to create folder: {e}" of its one except clause; str(e) is kept in
\* op.raised.
create_folder_message(e) == "Failed to create folder"

\* The message of create_folder when the OS refuses for another reason than an
\* existing target.
GenericCreateFolderMessage == create_folder_message("PermissionError")

\* FileExplorer.create_folder, on st = [nodes, rows, errors, raised], when the
\* dialog returns folder_name.
FileExplorer_create_folder(st, folder_name, denied, cp, show) ==
    IF folder_name = None \/ folder_name = <<>> THEN st
    ELSE LET new_folder_path == Append(cp, folder_name)
             e == MkdirRaises(st.nodes, new_folder_path, denied)
         IN IF e # "none"
            THEN [st EXCEPT !.errors = Append(@, create_folder_message(e)),
                            !.raised = e]
            ELSE LET t == Mkdir(st.nodes, new_folder_path)
                 IN [nodes |-> t,
                     rows |-> FileExplorer_load_files(t, SomeOrder(Children(t, cp)), show),
                     errors |-> st.errors,
                     raised |-> "none"]

\* The key binding or context-menu item "Create Folder".
CreateFolder(folder_name, denied) ==
    LET st == FileExplorer_create_folder(
                 [nodes |-> nodes, rows |-> rows, errors |-> <<>>, raised |-> "none"],
                 folder_name, denied, current_path, show_hidden)
    IN /\ Cardinality(st.nodes) <= MaxNodes
       /\ nodes' = st.nodes
       /\ rows' = st.rows
       /\ errors' = st.errors
       /\ op' = [name |-> "create_folder", file_name |-> folder_name,
                 denied |-> denied, raised |-> st.raised]
       /\ UNCHANGED <<current_path, show_hidden, cache, listed,
                      search_mode, url_bar_label>>
       /\ UNCHANGED NotFs

\* fs.create_folder(path) of an adapter, for a name in a folder of the tree.
FsCreateFolder(adapter, dir, name, denied) ==
    LET path == get_absolute_path(adapter, PathStr(dir), name)
        r == fs_create_folder(adapter, nodes, path, denied)
    IN /\ Cardinality(r.nodes) <= MaxNodes
       /\ nodes' = r.nodes
       /\ errors' = <<>>
       /\ op' = [name |-> "fs.create_folder", file_name |-> PathOf(path),
                 denied |-> denied, raised |-> r.raised, adapter |-> adapter,
                 logged |-> r.logged]
       /\ UNCHANGED <<current_path, show_hidden, cache, listed, rows,
                      search_mode, url_bar_label>>
       /\ UNCHANGED NotFs

CreateInit == FsStart(Names, {FALSE}) /\ EvStart /\ PathStart("local")

CreateNext ==
    \/ \E file_name \in Names \cup {None, <<>>}, denied \in BOOLEAN :
          CreateEmptyFile(file_name, denied)
    \/ \E folder_name \in Names \cup {None, <<>>}, denied \in BOOLEAN :
          CreateFolder(folder_name, denied)
    \/ \E a \in Adapters, d \in Dirs(nodes), n \in Names, denied \in BOOLEAN :
          FsCreateFolder(a, d, n, denied)

SpecCreate == CreateInit /\ [][CreateNext]_vars

\* C10: creating an empty file under a name that exists in current_path is
\* refused with "File already exists."; the entry of that name, the file
\* system, the listing and current_path stay as they were.
C10_CreateExistingRejected ==
    [][(/\ op'.name = "create_empty_file"
        /\ op'.file_name \notin {None, <<>>}
        /\ Exists(nodes, Append(current_path, op'.file_name)))
       => /\ errors' = <<"File already exists.">>
          /\ nodes' = nodes
          /\ rows' = rows
          /\ current_path' = current_path]_vars

\* C11: creating a folder whose target exists fails with an already-exists
\* error and leaves the file system as it was, in either adapter; the
\* controller's create_folder reports it with one message, which is not the
\* message it shows when the OS refuses for another reason.
C11_CreateExistingFolderFails ==
    [][/\ (/\ op'.name = "fs.create_folder"
            /\ Exists(nodes, op'.file_name))
           => /\ op'.raised = "FileExistsError"
              /\ nodes' = nodes
       /\ (/\ op'.name = "create_folder"
            /\ op'.file_name \notin {None, <<>>}
            /\ Exists(nodes, Append(current_path, op'.file_name)))
           => /\ nodes' = nodes
              /\ Len(errors') = 1
              /\ errors'[1] # GenericCreateFolderMessage]_vars

\* C11 for the local adapter alone: mkdir(exist_ok=False) raises FileExistsError
\* and nothing is created or altered.
C11_LocalCreateExistingFolderFails ==
    [][(/\ op'.name = "fs.create_folder"
        /\ op'.adapter = "local"
        /\ Exists(nodes, op'.file_name))
       => /\ op'.raised = "FileExistsError"
          /\ nodes' = nodes]_vars

\* The name of a file with contents was entered: it was refused and the file
\* has its contents.
C10_Witness ==
    /\ op.name = "create_empty_file"
    /\ errors = <<"File already exists.">>
    /\ op.file_name \in Names
    /\ IsFile(nodes, Append(current_path, op.file_name))
    /\ SizeOf(nodes, Append(current_path, op.file_name)) = 1

\* ------------------------------------------------------------------------
\* Entries that vanish under the local adapter (file_systems/basic_fs.py)
\* ------------------------------------------------------------------------
\* Python's None where a size or a timestamp is expected.
NoneStat == 0 - 1

\* os.stat of an entry: its size and its timestamps.
Stat(t, p) == [st_size |-> SizeOf(t, p), st_ctime |-> 1, st_mtime |-> 1]

\* File(name, path, type, file_size, created_at, last_modified_at) and
\* Folder(name, path, last_modified_at), with every attribute.
FileEntry(name, path, file_size, created_at, last_modified_at) ==
    [cls |-> "File", name |-> name, path |-> path, file_size |-> file_size,
     created_at |-> created_at, last_modified_at |-> last_modified_at]

FolderEntry(name, path, last_modified_at) ==
    [cls |-> "Folder", name |-> name, path |-> path, file_size |-> NoneStat,
     created_at |-> NoneStat, last_modified_at |-> last_modified_at]

\* When another actor removes the entry a call is looking at: not at all, before
\* the call's is_dir() test, or after that test and before its stat().
Vanishings == {"no", "before_is_dir", "before_stat"}

\* LocalFileSystem.get_file_or_folder(path) of an entry of file system t:
\* p.is_dir(), then p.stat() in either branch, with no except clause.
Local_get_file_or_folder(t, p, gone) ==
    LET is_dir == gone # "before_is_dir" /\ IsDir(t, p)
    IN IF gone # "no"
       THEN [raised |-> "FileNotFoundError", entry |-> FolderEntry(<<>>, <<>>, NoneStat)]
       ELSE IF is_dir
       THEN [raised |-> "none",
             entry |-> FolderEntry(PathName(p), PathStr(p), Stat(t, p).st_mtime)]
       ELSE [raised |-> "none",
             entry |-> FileEntry(PathName(p), PathStr(p), Stat(t, p).st_size,
                                 Stat(t, p).st_ctime, Stat(t, p).st_mtime)]

\* LocalFileSystem._handle_entry_in_list_contents for an entry that may vanish:
\* the folder branch calls item.stat() unguarded, the file branch catches
\* FileNotFoundError.
handle_entry_racing(t, item, gone) ==
    LET is_dir == gone # "before_is_dir" /\ IsDir(t, item)
    IN IF is_dir
       THEN IF gone = "before_stat"
            THEN [raised |-> "FileNotFoundError",
                  entry |-> FolderEntry(<<>>, <<>>, NoneStat)]
            ELSE [raised |-> "none",
                  entry |-> FolderEntry(PathName(item), PathStr(item),
                                        Stat(t, item).st_mtime)]
       ELSE IF gone # "no"
            THEN [raised |-> "none",
                  entry |-> FileEntry(PathName(item), PathStr(item),
                                      NoneStat, NoneStat, NoneStat)]
            ELSE [raised |-> "none",
                  entry |-> FileEntry(PathName(item), PathStr(item),
                                      Stat(t, item).st_size, Stat(t, item).st_ctime,
                                      Stat(t, item).st_mtime)]

\* LocalFileSystem.list_contents over the enumeration `found`, while another
\* actor removes `victim`: an exception of _handle_entry_in_list_contents ends
\* the loop and leaves list_contents.
RECURSIVE list_contents_racing(_, _, _, _, _)
list_contents_racing(t, found, victim, gone, contents) ==
    IF found = <<>> THEN [raised |-> "none", contents |-> contents]
    ELSE LET r == handle_entry_racing(t, Head(found),
                                      IF Head(found) = victim THEN gone ELSE "no")
         IN IF r.raised # "none"
            THEN [raised |-> r.raised, contents |-> <<>>]
            ELSE list_contents_racing(t, Tail(found), victim, gone,
                                      Append(contents, r.entry))

\* The entries another actor can remove with one unlink or rmdir.
Leaves(t) == {n.path : n \in {m \in t : Children(t, m.path) = {}}}

\* fs.get_file_or_folder(path) for an entry seen earlier, which another actor
\* may remove meanwhile.
GetFileOrFolder(p, gone) ==
    LET r == Local_get_file_or_folder(nodes, p, gone)
    IN /\ nodes' = IF gone = "no" THEN nodes ELSE {n \in nodes : n.path # p}
       /\ listed' = IF r.raised = "none" THEN <<r.entry>> ELSE <<>>
       /\ op' = [name |-> "get_file_or_folder", path |-> p, gone |-> gone,
                 raised |-> r.raised, was_dir |-> IsDir(nodes, p), dir |-> Root,
                 recursive |-> FALSE, before |-> {}]
       /\ UNCHANGED <<current_path, show_hidden, cache, rows, errors,
                      search_mode, url_bar_label>>
       /\ UNCHANGED NotFs

\* fs.list_contents(dir, recursive) of the local adapter while another actor
\* removes one of the enumerated entries.
ListContentsRacing(dir, recursive, victim, gone) ==
    \E found \in Perms(Local_scan(nodes, PathStr(dir), recursive)) :
        LET r == list_contents_racing(nodes, found, victim, gone, <<>>)
        IN /\ victim \in Local_scan(nodes, PathStr(dir), recursive)
           /\ nodes' = IF gone = "no" THEN nodes ELSE {n \in nodes : n.path # victim}
           /\ listed' = r.contents
           /\ op' = [name |-> "list_contents_racing", path |-> victim, gone |-> gone,
                     raised |-> r.raised, was_dir |-> IsDir(nodes, victim),
                     dir |-> dir, recursive |-> recursive,
                     before |-> Local_scan(nodes, PathStr(dir), recursive)]
           /\ UNCHANGED <<current_path, show_hidden, cache, rows, errors,
                          search_mode, url_bar_label>>
           /\ UNCHANGED NotFs

RaceInit == FsStart(Names, {FALSE}) /\ EvStart /\ PathStart("local")

RaceNext ==
    \/ \E p \in Leaves(nodes), gone \in Vanishings : GetFileOrFolder(p, gone)
    \/ \E d \in Dirs(nodes), rec \in BOOLEAN, v \in Leaves(nodes), gone \in Vanishings :
          ListContentsRacing(d, rec, v, gone)

SpecRace == RaceInit /\ [][RaceNext]_vars

\* C12: get_file_or_folder(path) of the local adapter, for an entry that another
\* actor removes before the stat, returns a File whose size and timestamps are
\* None and raises nothing.
C12_GetVanishedEntry ==
    (op.name = "get_file_or_folder" /\ op.gone # "no") =>
        /\ op.raised = "none"
        /\ listed = <<FileEntry(PathName(op.path), PathStr(op.path),
                                NoneStat, NoneStat, NoneStat)>>

\* C13: list_contents of the local adapter raises nothing when one enumerated
\* entry, file or folder, is removed before its is_dir() test or between that
\* test and its stat(): the removed entry is returned with size and timestamps
\* None and every other enumerated entry is returned.
C13_ListWithVanishedEntry ==
    (op.name = "list_contents_racing" /\ op.gone # "no") =>
        /\ op.raised = "none"
        /\ PathsIn(listed) = {PathStr(q) : q \in op.before}
        /\ \A k \in 1..Len(listed) :
              listed[k].path = PathStr(op.path) =>
                  /\ listed[k].file_size = NoneStat
                  /\ listed[k].last_modified_at = NoneStat

\* C13 for entries that are removed before their is_dir() test, and for files.
C13_ExceptFolderAfterIsDir ==
    (op.name = "list_contents_racing" /\ ~(op.was_dir /\ op.gone = "before_stat")) =>
        C13_ListWithVanishedEntry

\* ------------------------------------------------------------------------
\* Properties of a selection (actions/show_properties.py)
\* ------------------------------------------------------------------------
MaxSelection == 3   \* entries selected when the properties are asked for

\* The entries get_file_or_folder may hand to the aggregation: files with a size
\* and timestamps, a file without them, folders.
SelectableEntries ==
    {FileEntry(<<"a">>, <<"/", "a">>, 1, 1, 1),
     FileEntry(<<"b">>, <<"/", "b">>, 2, 2, 2),
     FileEntry(<<"c">>, <<"/", "c">>, NoneStat, NoneStat, NoneStat),
     FolderEntry(<<"d">>, <<"/", "d">>, 1),
     FolderEntry(<<"e">>, <<"/", "e">>, 2)}

Min2(x, y) == IF x < y THEN x ELSE y

Max2(x, y) == IF x < y THEN y ELSE x

\* The state of the loop before its first iteration.
PropertiesStart ==
    [raised |-> "none", nb_files |-> 0, nb_folders |-> 0, size_sum |-> 0,
     date_modified_min |-> NoneStat, date_modified_max |-> NoneStat]

\* One iteration of the loop of _show_properties_file_selection_list. min() and
\* max() of None and a datetime raise TypeError, which `except OSError` lets
\* through.
properties_step(acc, entry) ==
    LET counted == IF entry.cls = "File"
                   THEN [acc EXCEPT !.nb_files = @ + 1]
                   ELSE [acc EXCEPT !.nb_folders = @ + 1]
        summed == [counted EXCEPT !.size_sum =
                      @ + (IF entry.cls = "File" /\ entry.file_size # NoneStat
                              /\ entry.file_size # 0
                           THEN entry.file_size ELSE 0)]
        date_modified == entry.last_modified_at
    IN IF summed.date_modified_min = NoneStat
       THEN \* both are None, or both were set in an earlier iteration
            [summed EXCEPT !.date_modified_min = date_modified,
                           !.date_modified_max =
                               IF summed.date_modified_max = NoneStat THEN date_modified
                               ELSE Max2(date_modified, @)]
       ELSE IF date_modified = NoneStat
       THEN [summed EXCEPT !.raised = "TypeError"]
       ELSE [summed EXCEPT !.date_modified_min = Min2(date_modified, @),
                           !.date_modified_max = Max2(date_modified, @)]

RECURSIVE properties_loop(_, _)
properties_loop(acc, entries) ==
    IF entries = <<>> \/ acc.raised # "none" THEN acc
    ELSE properties_loop(properties_step(acc, Head(entries)), Tail(entries))

\* ShowProperties._show_properties_file_selection_list for the entries that
\* get_file_or_folder returned: the loop, then the f-string that formats
\* date_modified_min and date_modified_max, which raises TypeError for None.
show_properties_file_selection_list(entries) ==
    LET acc == properties_loop(PropertiesStart, entries)
    IN IF acc.raised = "none" /\ acc.date_modified_min = NoneStat
       THEN [acc EXCEPT !.raised = "TypeError"]
       ELSE acc

\* The context-menu item "Properties" with some rows selected.
ShowProperties(entries) ==
    /\ op' = [name |-> "show_properties", selection |-> entries,
              result |-> show_properties_file_selection_list(entries)]
    /\ UNCHANGED <<nodes, current_path, show_hidden, cache, rows, errors, listed,
                   search_mode, url_bar_label>>
    /\ UNCHANGED NotFs

Selections ==
    UNION {[1..n -> SelectableEntries] : n \in 1..MaxSelection}

PropertiesInit == FsIdle /\ EvStart /\ PathStart("local")

PropertiesNext == \E entries \in Selections : ShowProperties(entries)

SpecProperties == PropertiesInit /\ [][PropertiesNext]_vars

HasStat(e) == e.last_modified_at # NoneStat

RECURSIVE SizeSum(_)
SizeSum(entries) ==
    IF entries = <<>> THEN 0
    ELSE (IF Head(entries).cls = "File" /\ HasStat(Head(entries))
          THEN Head(entries).file_size ELSE 0) + SizeSum(Tail(entries))

\* C14: the aggregation over a selection that holds files with size None and
\* timestamps None, in any position, raises nothing: such a file is counted as a
\* file, adds 0 to the size sum and takes no part in the minimum and maximum of
\* the modification dates.
C14_AggregationToleratesNone ==
    (/\ op.name = "show_properties"
     /\ \E k \in 1..Len(op.selection) : ~HasStat(op.selection[k])) =>
        LET sel == op.selection
            dated == {sel[k].last_modified_at : k \in {j \in 1..Len(sel) : HasStat(sel[j])}}
        IN /\ op.result.raised = "none"
           /\ op.result.nb_files =
                 Cardinality({k \in 1..Len(sel) : sel[k].cls = "File"})
           /\ op.result.size_sum = SizeSum(sel)
           /\ \A d \in dated : /\ op.result.date_modified_min <= d
                               /\ op.result.date_modified_max >= d

\* C14 for selections in which the files without timestamps come before every
\* other entry, and are not the whole selection.
C14_NoneFilesFirst ==
    (/\ op.name = "show_properties"
     /\ HasStat(op.selection[Len(op.selection)])
     /\ \A i, j \in 1..Len(op.selection) :
           (i < j /\ HasStat(op.selection[i])) => HasStat(op.selection[j])) =>
        C14_AggregationToleratesNone

\* ------------------------------------------------------------------------
\* Navigation (file_explorer.py, ui/navigation_pane.py, ui/details_pane.py,
\* ui/url_pane.py)
\* ------------------------------------------------------------------------
\* Two controllers are in the sources: FileExplorer (file_explorer.py), which
\* calls on_current_path_change() itself and keeps current_path as a Path, and
\* the mix-ins (ui/*.py), which register listeners on current_path_changed and
\* keep current_path as a str. FileExplorer registers no listener.
IsMixIns == listeners["current_path_changed"] # <<>>

\* The listeners the __init__ methods of the mix-ins register on
\* current_path_changed; their order is the order of the __init__ calls.
MixInListeners == {"load_files", "navigation_pane_update", "refresh"}

\* The mounts of the registry file_systems, and the tree each one serves.
FileSystems == {"/", "ftp"}

FtpTree == {Node(<<"b">>, "file")}

MountTree(name, t) == IF name = "/" THEN t ELSE FtpTree

\* Path(path_str) == self.current_path with current_path a str: a Path never
\* equals a str.
PathEqualsStr(p, str) == FALSE

\* The state a navigation handler works on.
NavState ==
    [current_path |-> current_path, url_bar |-> url_bar, rows |-> rows,
     highlighted |-> highlighted, title |-> title, errors |-> <<>>,
     current_file_system |-> current_file_system,
     raised |-> "none", invoked |-> <<>>, produced |-> 0]

\* The exception self.current_path.iterdir() / Path(path).iterdir() raises.
IterdirRaises(t, d, unread) ==
    IF ~IsDir(t, d) THEN "FileNotFoundError"
    ELSE IF d \in unread THEN "PermissionError"
    ELSE "none"

\* FileExplorer.load_files: the URL bar is rewritten and the tree emptied, then
\* sorted(self.current_path.iterdir()) is evaluated before the try block.
load_files(st, t, unread, show) ==
    LET e == IterdirRaises(t, st.current_path, unread)
    IN IF e # "none"
       THEN [st EXCEPT !.url_bar = PathStr(st.current_path),
                       !.rows = <<>>,
                       !.raised = e]
       ELSE [st EXCEPT !.url_bar = PathStr(st.current_path),
                       !.rows = FileExplorer_load_files(
                                    t, SomeOrder(Children(t, st.current_path)), show)]

\* FileExplorer.on_current_path_change
on_current_path_change(st, t, unread, show, bms) ==
    LET s1 == [st EXCEPT !.url_bar = PathStr(st.current_path)]
        s2 == load_files(s1, t, unread, show)
    IN IF s2.raised # "none" THEN s2
       ELSE [s2 EXCEPT !.highlighted = bookmarks_update(bms, s2.current_path),
                       !.title = window_title(s2.current_path)]

\* One listener of the mix-ins, invoked by produce().
\*   load_files              DetailsPaneMixIn.load_files, over self.fs, which is
\*                           LocalFileSystem("/") whatever mount is selected
\*   navigation_pane_update  NavigationPaneMixIn.navigation_pane_update
\*   refresh                 UrlPaneMixIn.refresh
MixInListener(cb, st, t, unread, show, bms) ==
    LET s1 == [st EXCEPT !.invoked = Append(@, cb)]
        e == IterdirRaises(t, st.current_path, unread)
    IN CASE cb = "load_files" ->
              IF e # "none"
              THEN [s1 EXCEPT !.rows = <<>>, !.raised = e]
              ELSE [s1 EXCEPT !.rows = DetailsPane_load_files("local",
                        Local_list_contents(t, SomeOrder(Children(t, st.current_path))),
                        show)]
         [] cb = "navigation_pane_update" ->
              [s1 EXCEPT !.highlighted =
                  {b.label : b \in {c \in bms :
                                      PathEqualsStr(PathOf(c.path), st.current_path)}}]
         [] cb = "refresh" ->
              [s1 EXCEPT !.url_bar = PathStr(st.current_path)]

\* Event.produce over the listeners ls: a listener that raises ends the loop.
RECURSIVE produce_loop(_, _, _, _, _, _)
produce_loop(ls, st, t, unread, show, bms) ==
    IF ls = <<>> \/ st.raised # "none" THEN st
    ELSE produce_loop(Tail(ls), MixInListener(Head(ls), st, t, unread, show, bms),
                      t, unread, show, bms)

\* current_path_changed.produce()
produce(ls, st, t, unread, show, bms) ==
    produce_loop(ls, [st EXCEPT !.produced = @ + 1], t, unread, show, bms)

\* The controller's set_current_path of the mix-ins' declarations: the path is
\* normalised, stored, and current_path_changed is produced.
set_current_path(path, ls, st, t, unread, show, bms) ==
    produce(ls, [st EXCEPT !.current_path = PathOf(path)], t, unread, show, bms)

\* Variant of navigate_to that stores the path before it tests it.
navigate_to_unchecked(path, st, t, unread, show, bms) ==
    on_current_path_change([st EXCEPT !.current_path = PathOf(path)],
                           t, unread, show, bms)

\* FileExplorer.navigate_to(path)
navigate_to(path, st, t, unread, show, bms) ==
    LET new_path == PathOf(path)
    IN IF Exists(t, new_path) /\ IsDir(t, new_path)
       THEN on_current_path_change([st EXCEPT !.current_path = new_path],
                                   t, unread, show, bms)
       ELSE [st EXCEPT !.errors = Append(@, "The path does not exist or is not a directory.")]

\* NavigationPaneMixIn.navigate_to(path)
MixIn_navigate_to(path, ls, st, t, unread, show, bms) ==
    LET path_ == PathOf(path)
    IN IF Exists(t, path_) /\ IsDir(t, path_)
       THEN set_current_path(path, ls, st, t, unread, show, bms)
       ELSE [st EXCEPT !.errors = Append(@, "The path does not exist or is not a directory.")]

\* go_up without the test of up_path.exists().
FileExplorer_go_up_unchecked(st, t, unread, show, bms) ==
    on_current_path_change([st EXCEPT !.current_path = Parent(st.current_path)],
                           t, unread, show, bms)

\* FileExplorer.go_up
FileExplorer_go_up(st, t, unread, show, bms) ==
    LET up_path == Parent(st.current_path)
    IN IF Exists(t, up_path)
       THEN on_current_path_change([st EXCEPT !.current_path = up_path],
                                   t, unread, show, bms)
       ELSE st

\* FileExplorer.on_item_double_click on the row named selected_file; a file is
\* handed to open_file.
on_item_double_click(selected_file, st, t, unread, show, bms) ==
    LET path == Append(st.current_path, selected_file)
    IN IF IsDir(t, path)
       THEN on_current_path_change([st EXCEPT !.current_path = path],
                                   t, unread, show, bms)
       ELSE st

\* DetailsPaneMixIn.on_item_double_click
MixIn_on_item_double_click(selected_file, ls, st, t, unread, show, bms) ==
    LET path == Append(st.current_path, selected_file)
    IN IF IsDir(t, path)
       THEN set_current_path(PathStr(path), ls, st, t, unread, show, bms)
       ELSE st

\* Variant of the mount branch that keeps current_path.
select_file_system_keeping_path(fs_text, ls, st, t, unread, show, bms) ==
    produce(ls, [st EXCEPT !.current_file_system = fs_text], t, unread, show, bms)

\* NavigationPaneMixIn.navigate_to_selected_bookmark, branch "FS:<name>"
select_file_system(fs_text, ls, st, t, unread, show, bms) ==
    produce(ls, [st EXCEPT !.current_file_system = fs_text,
                           !.current_path = Root],
            t, unread, show, bms)

\* What a navigation handler leaves behind: the views, the error dialogs it
\* showed, the listeners its produce() invoked and how the delivery ended.
NavDone(st, o) ==
    /\ current_path' = st.current_path
    /\ url_bar' = st.url_bar
    /\ rows' = st.rows
    /\ highlighted' = st.highlighted
    /\ title' = st.title
    /\ errors' = st.errors
    /\ current_file_system' = st.current_file_system
    /\ calls' = [k \in 1..Len(st.invoked) |->
                    [cb |-> st.invoked[k], ch |-> "current_path_changed", depth |-> 1]]
    /\ delivery' = IF st.produced = 0 THEN "idle"
                   ELSE IF st.raised # "none" THEN "raised" ELSE "returned"
    /\ op' = [o EXCEPT !.raised = st.raised, !.produced = st.produced]
    /\ UNCHANGED <<nodes, show_hidden, cache, listed, search_mode, url_bar_label,
                   bookmarks, unreadable, listeners, registered, stack, channel>>
    /\ UNCHANGED <<pathVars, uiVars>>

NavOp(name, arg) ==
    [name |-> name, arg |-> arg, raised |-> "none", produced |-> 0,
     was |-> current_path]

\* navigate_to(path), of either controller.
NavigateTo(path) ==
    NavDone(IF IsMixIns
            THEN MixIn_navigate_to(path, listeners["current_path_changed"], NavState,
                                   nodes, unreadable, show_hidden, bookmarks)
            ELSE navigate_to(path, NavState, nodes, unreadable, show_hidden, bookmarks),
            NavOp("navigate_to", path))

\* The bookmark `b` is selected in the bookmarks tree: navigate_to_selected_bookmark
\* of either controller calls its navigate_to(self.bookmarks[item_text]).
NavigateToSelectedBookmark(b) ==
    NavDone(IF IsMixIns
            THEN MixIn_navigate_to(b.path, listeners["current_path_changed"], NavState,
                                   nodes, unreadable, show_hidden, bookmarks)
            ELSE navigate_to(b.path, NavState, nodes, unreadable, show_hidden, bookmarks),
            NavOp("navigate_to_selected_bookmark", b.path))

\* The item "FS:<fs_text>" is selected in the navigation pane of the mix-ins.
SelectFileSystem(fs_text) ==
    /\ IsMixIns
    /\ NavDone(select_file_system(fs_text, listeners["current_path_changed"], NavState,
                                  nodes, unreadable, show_hidden, bookmarks),
               NavOp("select_file_system", fs_text))

\* The up button or the go_up key of FileExplorer.
FileExplorerGoUp ==
    /\ ~IsMixIns
    /\ NavDone(FileExplorer_go_up(NavState, nodes, unreadable, show_hidden, bookmarks),
               NavOp("go_up", <<>>))

\* A double click or Return on row k of the details pane.
OnItemDoubleClick(k) ==
    NavDone(IF IsMixIns
            THEN MixIn_on_item_double_click(rows[k].name,
                     listeners["current_path_changed"], NavState,
                     nodes, unreadable, show_hidden, bookmarks)
            ELSE on_item_double_click(rows[k].name, NavState,
                     nodes, unreadable, show_hidden, bookmarks),
            NavOp("on_item_double_click", rows[k].name))

\* `if self.context_menu:` of a value of the attribute: None is false, and a
\* tk.Menu, which defines neither __bool__ nor __len__, is true whether it is
\* posted, unposted or destroyed.
Truthy(menu) == menu # "None"

\* FileExplorer.handle_escape_key: a context menu that was created is destroyed
\* (Tk ignores the destroy of a window that is gone); only `elif` the search
\* mode is left, by exit_search_mode.
HandleEscapeKey ==
    /\ ~IsMixIns
    /\ LET exits == ~Truthy(context_menu) /\ search_mode
           st == IF exits
                 THEN load_files(NavState, nodes, unreadable, show_hidden)
                 ELSE NavState
       IN /\ rows' = st.rows
          /\ url_bar' = st.url_bar
          /\ url_bar_label' = IF exits /\ st.raised = "none"
                              THEN "Location:" ELSE url_bar_label
          /\ search_mode' = IF exits /\ st.raised = "none"
                            THEN FALSE ELSE search_mode
          /\ context_menu' = IF Truthy(context_menu) THEN "destroyed" ELSE context_menu
          /\ errors' = <<>>
          /\ op' = [NavOp("handle_escape_key", <<>>) EXCEPT !.raised = st.raised]
          /\ UNCHANGED <<nodes, current_path, show_hidden, cache, listed>>
          /\ UNCHANGED <<title, bookmarks, highlighted, current_file_system, unreadable>>
          /\ UNCHANGED <<font_size, selected, clipboard_data, cwd>>
          /\ UNCHANGED <<evVars, pathVars>>

\* FileExplorer.show_context_menu: a new menu is created, posted and kept in
\* self.context_menu.
ShowContextMenu ==
    /\ ~IsMixIns
    /\ context_menu' = "posted"
    /\ op' = NavOp("show_context_menu", <<>>)
    /\ UNCHANGED <<nodes, current_path, show_hidden, cache, rows, errors, listed,
                   search_mode, url_bar_label>>
    /\ UNCHANGED <<font_size, selected, clipboard_data, cwd>>
    /\ UNCHANGED <<evVars, pathVars, navVars>>

\* The user dismisses the posted menu with a click outside it or by choosing
\* an entry: Tk unposts the menu, and no code of the explorer runs.
DismissContextMenu ==
    /\ context_menu = "posted"
    /\ context_menu' = "unposted"
    /\ op' = NavOp("dismiss_context_menu", <<>>)
    /\ UNCHANGED <<nodes, current_path, show_hidden, cache, rows, errors, listed,
                   search_mode, url_bar_label>>
    /\ UNCHANGED <<font_size, selected, clipboard_data, cwd>>
    /\ UNCHANGED <<evVars, pathVars, navVars>>

\* FileExplorer.handle_search, in the FileExplorer controller. In a folder the
\* OS does not let it list, search_files empties the tree and its iterdir()
\* raises: the label and search_mode are not reached.
FileExplorerSearch(search_term) ==
    /\ ~IsMixIns
    /\ IF search_term # None
          /\ IterdirRaises(nodes, current_path, unreadable) # "none"
       THEN /\ rows' = <<>>
            /\ op' = [name |-> "search", view |-> "FileExplorer",
                      term |-> search_term, adapter |-> "none",
                      raised |-> IterdirRaises(nodes, current_path, unreadable)]
            /\ UNCHANGED <<nodes, current_path, show_hidden, cache, errors, listed,
                           search_mode, url_bar_label>>
            /\ UNCHANGED NotFs
       ELSE HandleSearch(search_term)

\* The strings navigate_to may be called with.
\* The orders in which the mix-ins may have registered their listeners: each
\* of them may come first.
MixInOrders ==
    {order \in Perms(MixInListeners) :
        order \in {<<"load_files", "navigation_pane_update", "refresh">>,
                   <<"navigation_pane_update", "refresh", "load_files">>,
                   <<"refresh", "load_files", "navigation_pane_update">>}}

NavTargets == {PathStr(p) : p \in {Root} \cup {<<n>> : n \in Names}
                                  \cup {<<n, m>> : n \in Names, m \in Names}}

\* The explorer started on a folder (initial_path), with some other folder
\* the OS does not let it list, as FileExplorer or as the mix-in controller with
\* its listeners registered.
NavInit ==
    /\ nodes \in Trees(Names, MaxNavNodes)
    /\ current_path \in Dirs(nodes)
    /\ show_hidden = FALSE
    /\ cache = {}
    /\ rows = FileExplorer_load_files(nodes, SomeOrder(Children(nodes, current_path)),
                                      show_hidden)
    /\ errors = <<>>
    /\ listed = <<>>
    /\ search_mode = FALSE
    /\ url_bar_label = "Location:"
    /\ op = [name |-> "init"]
    /\ ViewsStart({Root, << <<"a">> >>})
    /\ UiStart
    /\ unreadable \in {{}} \cup {{d} : d \in Dirs(nodes) \ {Root, current_path}}
    /\ \E order \in MixInOrders \cup {<<>>} :
          listeners = [ch \in Channels |->
                          IF ch = "current_path_changed" THEN order
                          ELSE IF order = <<>> THEN <<>> ELSE <<"load_files">>]
    /\ registered = <<>>
    /\ stack = <<>>
    /\ calls = <<>>
    /\ delivery = "idle"
    /\ channel = "none"
    /\ PathStart("local")

NavNext ==
    \/ \E path \in NavTargets : NavigateTo(path)
    \/ \E b \in bookmarks : NavigateToSelectedBookmark(b)
    \/ \E fs_text \in FileSystems : SelectFileSystem(fs_text)
    \/ FileExplorerGoUp
    \/ \E k \in 1..Len(rows) : OnItemDoubleClick(k)
    \/ HandleEscapeKey
    \/ \E term \in Terms \cup {None} : FileExplorerSearch(term)

SpecNav == NavInit /\ [][NavNext]_vars

\* Another process removes the folder of the root that current_path is in,
\* with everything below it; the explorer is not told.
FolderRemoved ==
    /\ current_path # Root
    /\ nodes' = {n \in nodes : n.path[1] # current_path[1]}
    /\ unreadable' = {d \in unreadable : d[1] # current_path[1]}
    /\ op' = NavOp("folder_removed", <<>>)
    /\ UNCHANGED <<current_path, show_hidden, cache, rows, errors, listed,
                   search_mode, url_bar_label>>
    /\ UNCHANGED <<url_bar, title, bookmarks, highlighted, current_file_system>>
    /\ UNCHANGED NotFsNav

\* The FileExplorer controller going up, in a file system that changes.
GoUpInit == NavInit /\ ~IsMixIns

GoUpNext ==
    \/ FileExplorerGoUp
    \/ FolderRemoved

SpecGoUp == GoUpInit /\ [][GoUpNext]_vars

\* The FileExplorer controller with its search, its context menu and the
\* Escape key.
MenuInit == FsStart(Names, {FALSE}) /\ EvStart /\ PathStart("local")

MenuNext ==
    \/ \E term \in Terms \cup {None} : FileExplorerSearch(term)
    \/ ShowContextMenu
    \/ DismissContextMenu
    \/ HandleEscapeKey

SpecMenu == MenuInit /\ [][MenuNext]_vars

\* The handlers that navigate, by the names the actions record.
NavHandlers ==
    {"navigate_to", "navigate_to_selected_bookmark", "select_file_system", "go_up",
     "on_item_double_click"}

\* ------------------------------------------------------------------------
\* The mix-in controller in one folder: rename, copy and paste
\* ------------------------------------------------------------------------
\* The tree t with files that differ in content: the size of a file is the
\* depth it lies at.
Sized(t) == {[n EXCEPT !.size = IF n.kind = "file" THEN Len(n.path) ELSE 0] : n \in t}

\* The mix-in controller started on a folder, by a process with some working
\* directory: DetailsPaneMixIn, NavigationPaneMixIn and UrlPaneMixIn have
\* registered their listeners.
SessionInit ==
    /\ nodes \in {Sized(t) : t \in Trees(Names, MaxNavNodes)}
    /\ current_path \in Dirs(nodes)
    /\ show_hidden = FALSE
    /\ cache = {}
    /\ rows = FileExplorer_load_files(nodes, SomeOrder(Children(nodes, current_path)),
                                      show_hidden)
    /\ errors = <<>>
    /\ listed = <<>>
    /\ search_mode = FALSE
    /\ url_bar_label = "Location:"
    /\ op = [name |-> "init"]
    /\ ViewsStart({Root})
    /\ unreadable = {}
    /\ context_menu = "None"
    /\ font_size = DefaultFontSize
    /\ selected = <<>>
    /\ clipboard_data = <<>>
    /\ cwd \in Dirs(nodes)
    /\ listeners = [ch \in Channels |->
                       IF ch = "current_path_changed"
                       THEN <<"load_files", "navigation_pane_update", "refresh">>
                       ELSE <<"load_files">>]
    /\ registered = <<>>
    /\ stack = <<>>
    /\ calls = <<>>
    /\ delivery = "idle"
    /\ channel = "none"
    /\ PathStart("local")

\* current_folder_changed.produce() on st = [nodes, rows, produced, ...]: each
\* listener, DetailsPaneMixIn.load_files, reloads the rows of folder cp.
RECURSIVE folder_changed_loop(_, _, _, _)
folder_changed_loop(ls, st, cp, show) ==
    IF ls = <<>> THEN st
    ELSE folder_changed_loop(Tail(ls),
            [st EXCEPT !.rows = DetailsPane_load_files("local",
                          Local_list_contents(st.nodes, SomeOrder(Children(st.nodes, cp))),
                          show)],
            cp, show)

folder_changed(ls, st, cp, show) ==
    folder_changed_loop(ls, [st EXCEPT !.produced = @ + 1], cp, show)

\* The deliveries on current_folder_changed a handler made, as `calls`.
FolderChangedCalls(ls, produced) ==
    [k \in 1..(produced * Len(ls)) |->
        [cb |-> ls[((k - 1) % Len(ls)) + 1], ch |-> "current_folder_changed",
         depth |-> 1]]

IsBelow(p, d) == Len(p) >= Len(d) /\ SubSeq(p, 1, Len(d)) = d

\* Path.rename(new) raises OSError (POSIX): the OS denies it, or the target
\* is a folder and the source a file, a file and the source a folder, or a
\* folder that is not empty.
RenameRaises(t, old, new, denied) ==
    \/ old \in denied
    \/ /\ old # new
       /\ \/ IsDir(t, new) /\ IsFile(t, old)
          \/ IsFile(t, new) /\ IsDir(t, old)
          \/ IsDir(t, new) /\ Children(t, new) # {}

\* The tree after old.rename(new): the entry and what is below it moved, a
\* target that was there replaced.
Renamed(t, old, new) ==
    IF old = new THEN t
    ELSE {n \in t : ~IsBelow(n.path, old) /\ ~IsBelow(n.path, new)}
         \cup {[n EXCEPT !.path = new \o SubSeq(n.path, Len(old) + 1, Len(n.path))] :
                  n \in {m \in t : IsBelow(m.path, old)}}

\* Variant of rename_item that produces the event before it renames.
rename_item_producing_first(st, selected_items, new_name, denied, cp, ls, show) ==
    IF selected_items = <<>> THEN st
    ELSE IF Len(selected_items) = 1
    THEN IF new_name = None \/ new_name = <<>> THEN st
         ELSE LET old_path == PathOf(selected_items[1])
                  new_path == Append(cp, new_name)
                  s1 == folder_changed(ls, st, cp, show)
              IN IF RenameRaises(st.nodes, old_path, new_path, denied)
                 THEN [s1 EXCEPT !.errors = Append(@, "Error renaming"),
                                 !.os_error = TRUE]
                 ELSE [s1 EXCEPT !.nodes = Renamed(st.nodes, old_path, new_path)]
    ELSE [st EXCEPT !.errors = Append(@, "Please select only one item to rename")]

\* RenameMixIn.rename_item on st = [nodes, rows, errors, produced, os_error]:
\* selected_items are the absolute paths of the selection, new_name what the
\* dialog returned.
rename_item(st, selected_items, new_name, denied, cp, ls, show) ==
    IF selected_items = <<>> THEN st
    ELSE IF Len(selected_items) = 1
    THEN IF new_name = None \/ new_name = <<>> THEN st
         ELSE LET old_path == PathOf(selected_items[1])
                  new_path == Append(cp, new_name)
              IN IF RenameRaises(st.nodes, old_path, new_path, denied)
                 THEN [st EXCEPT !.errors = Append(@, "Error renaming"),
                                 !.os_error = TRUE]
                 ELSE folder_changed(ls,
                         [st EXCEPT !.nodes = Renamed(st.nodes, old_path, new_path)],
                         cp, show)
    ELSE [st EXCEPT !.errors = Append(@, "Please select only one item to rename")]

\* F2 on a selection of rows: the dialog returns new_name, and the OS may
\* refuse the rename.
RenameItem(picked, new_name, denied) ==
    LET selected_items == details_pane_get_current_selection(current_path, rows, picked)
        ls == listeners["current_folder_changed"]
        st == rename_item([nodes |-> nodes, rows |-> rows, errors |-> <<>>,
                           produced |-> 0, os_error |-> FALSE],
                          selected_items, new_name, denied, current_path, ls,
                          show_hidden)
    IN /\ nodes' = st.nodes
       /\ rows' = st.rows
       /\ errors' = st.errors
       /\ calls' = FolderChangedCalls(ls, st.produced)
       /\ delivery' = IF st.produced = 0 THEN "idle" ELSE "returned"
       /\ op' = [name |-> "rename", selection |-> selected_items,
                 new_name |-> new_name, os_error |-> st.os_error,
                 produced |-> st.produced]
       /\ UNCHANGED <<current_path, show_hidden, cache, listed, search_mode,
                      url_bar_label>>
       /\ UNCHANGED <<listeners, registered, stack, channel>>
       /\ UNCHANGED <<pathVars, navVars, uiVars>>

RenameNext ==
    \E picked \in SUBSET (1..Len(rows)) :
       \E new_name \in Names \cup {<<"b">>, <<>>, None} :
          \E denied \in SUBSET {Append(current_path, rows[k].name) : k \in picked} :
             RenameItem(picked, new_name, denied)

SpecRename == SessionInit /\ [][RenameNext]_vars

\* C28: rename_item renames and produces current_folder_changed once exactly
\* when one item is selected, the name entered is not empty and the rename
\* succeeds; with no selection, several items, a cancelled dialog, an empty
\* name or an OS error the file system is unchanged and nothing is produced,
\* and an error message is shown for several items and for an OS error.
C28_RenameItem ==
    [][op'.name = "rename"
       => LET sel == op'.selection
              named == op'.new_name # None /\ op'.new_name # <<>>
              done == Len(sel) = 1 /\ named /\ ~op'.os_error
          IN /\ done
                => LET old_path == PathOf(sel[1])
                       new_path == Append(current_path, op'.new_name)
                   IN /\ nodes' = Renamed(nodes, old_path, new_path)
                      /\ Exists(nodes', new_path)
                      /\ old_path # new_path
                         => nodes' # nodes /\ ~Exists(nodes', old_path)
                      /\ op'.produced = 1
                      /\ Len(calls') = 1
                      /\ errors' = <<>>
                      /\ PathsIn(rows') = {PathStr(q) : q \in Children(nodes', current_path)}
             /\ ~done
                => /\ nodes' = nodes
                   /\ op'.produced = 0
                   /\ calls' = <<>>
                   /\ rows' = rows
                   /\ Len(sel) > 1
                      => errors' = <<"Please select only one item to rename">>
                   /\ (Len(sel) = 1 /\ named) => errors' = <<"Error renaming">>
                   /\ (Len(sel) = 0 \/ (Len(sel) = 1 /\ ~named)) => errors' = <<>>]_vars

\* One of two rows was selected and renamed to a new name: the event was
\* produced once and the listing shows the new name next to the other entry.
C28_Witness ==
    /\ op.name = "rename"
    /\ Len(op.selection) = 1
    /\ op.new_name = <<"b">>
    /\ ~op.os_error
    /\ op.produced = 1
    /\ Len(calls) = 1
    /\ Len(rows) = 2
    /\ \E k \in 1..2 : rows[k].name = <<"b">>
    /\ ~Exists(nodes, PathOf(op.selection[1]))

\* CopyPasteMixIn.copy_selection: the values of the selected rows replace the
\* clipboard unless nothing is selected. Of the values only the name is read
\* later; `at` is history, the folder shown when the row was copied, which the
\* code does not keep.
copy_selection(clip, names, cp) ==
    IF names # <<>>
    THEN [k \in 1..Len(names) |-> [name |-> names[k], at |-> cp]]
    ELSE clip

\* Ctrl+C on a selection of rows.
CopySelection(picked) ==
    LET idx == SelectSeq([k \in 1..Len(rows) |-> k], LAMBDA k : k \in picked)
        names == [k \in 1..Len(idx) |-> rows[idx[k]].name]
    IN /\ clipboard_data' = copy_selection(clipboard_data, names, current_path)
       /\ op' = [name |-> "copy", selection |-> names]
       /\ UNCHANGED <<nodes, current_path, show_hidden, cache, rows, errors, listed,
                      search_mode, url_bar_label>>
       /\ UNCHANGED <<context_menu, font_size, selected, cwd>>
       /\ UNCHANGED <<evVars, pathVars, navVars>>

\* The tree after a file of `size` was written at p.
Written(t, p, size) ==
    {n \in t : n.path # p} \cup {[path |-> p, kind |-> "file", size |-> size]}

\* shutil.copy(source, destination) on st: the source must be a file; a
\* destination that is a folder receives the file under the source's name.
shutil_copy(st, source, destination) ==
    LET t == st.nodes
        target == IF IsDir(t, destination) THEN Append(destination, Last(source))
                  ELSE destination
    IN IF ~Exists(t, source) THEN [st EXCEPT !.raised = "FileNotFoundError"]
       ELSE IF IsDir(t, source) \/ IsDir(t, target)
       THEN [st EXCEPT !.raised = "IsADirectoryError"]
       ELSE [st EXCEPT !.nodes = Written(t, target, SizeOf(t, source))]

\* CopyPasteMixIn.paste_selection, the loop over the clipboard, on
\* st = [nodes, rows, produced, raised, warned]: the event is produced, then
\* Path(name).absolute(), which is the working directory wd joined with the
\* name, is copied to current_path.
RECURSIVE paste_selection(_, _, _, _, _, _)
paste_selection(clip, st, cp, wd, ls, show) ==
    IF clip = <<>> THEN st
    ELSE LET s1 == folder_changed(ls, st, cp, show)
             source_path == Append(wd, Head(clip).name)
             destination_path ==
                 IF IsFile(s1.nodes, source_path) /\ IsDir(s1.nodes, cp)
                 THEN Append(cp, Last(source_path))
                 ELSE cp
         IN IF destination_path = source_path
            THEN [s1 EXCEPT !.warned = TRUE]
            ELSE LET s2 == shutil_copy(s1, source_path, destination_path)
                 IN IF s2.raised # "none" THEN s2
                    ELSE paste_selection(Tail(clip), s2, cp, wd, ls, show)

\* Ctrl+V
PasteSelection ==
    LET ls == listeners["current_folder_changed"]
        st == paste_selection(clipboard_data,
                              [nodes |-> nodes, rows |-> rows, produced |-> 0,
                               raised |-> "none", warned |-> FALSE],
                              current_path, cwd, ls, show_hidden)
    IN /\ nodes' = st.nodes
       /\ rows' = st.rows
       /\ errors' = <<>>
       /\ calls' = FolderChangedCalls(ls, st.produced)
       /\ delivery' = IF st.produced = 0 THEN "idle" ELSE "returned"
       /\ op' = [name |-> "paste", raised |-> st.raised, produced |-> st.produced,
                 warned |-> st.warned]
       /\ UNCHANGED <<current_path, show_hidden, cache, listed, search_mode,
                      url_bar_label>>
       /\ UNCHANGED <<listeners, registered, stack, channel>>
       /\ UNCHANGED <<pathVars, navVars, uiVars>>

ClipboardNext ==
    \/ \E picked \in SUBSET (1..Len(rows)) : CopySelection(picked)
    \/ PasteSelection
    \/ \E d \in Dirs(nodes) : NavigateTo(PathStr(d))
    \/ SelectFileSystem("/")

SpecClipboard == SessionInit /\ [][ClipboardNext]_vars

\* C27: when paste_selection has copied entries into current_path, the
\* listing of the details pane, reloaded by a current_folder_changed delivery
\* after the copy, includes every one of them once paste_selection returns.
C27_PasteThenReload ==
    [][op'.name = "paste"
       => \A n \in nodes' \ nodes :
             Parent(n.path) = current_path => PathStr(n.path) \in PathsIn(rows')]_vars

\* C27 for the event alone: no entry is copied without a delivery on
\* current_folder_changed in the same paste.
C27_PasteProduces ==
    [][(op'.name = "paste" /\ nodes' # nodes)
       => op'.produced >= 1 /\ Len(calls') >= 1]_vars

\* C29: a file copied in folder A and pasted while folder B is shown is
\* copied from A into B, whatever the working directory of the process is;
\* navigation and a copy_selection with nothing selected leave the clipboard
\* as it is.
C29_PasteFromWhereCopied ==
    [][/\ op'.name = "paste"
          => \A k \in 1..Len(clipboard_data) :
                LET source == Append(clipboard_data[k].at, clipboard_data[k].name)
                    target == Append(current_path, clipboard_data[k].name)
                IN (/\ clipboard_data[k].at # current_path
                    /\ IsFile(nodes, source)
                    /\ ~IsDir(nodes, target))
                   => /\ IsFile(nodes', target)
                      /\ SizeOf(nodes', target) = SizeOf(nodes, source)
       /\ op'.name \in NavHandlers => clipboard_data' = clipboard_data
       /\ (op'.name = "copy" /\ op'.selection = <<>>)
          => clipboard_data' = clipboard_data]_vars

\* C29 for the clipboard alone.
C29_ClipboardKept ==
    [][/\ op'.name \in NavHandlers => clipboard_data' = clipboard_data
       /\ (op'.name = "copy" /\ op'.selection = <<>>)
          => clipboard_data' = clipboard_data]_vars

\* C29 for a process whose working directory is the folder the entries were
\* copied in.
C29_PasteWhenCwdIsOrigin ==
    [][op'.name = "paste"
       => \A k \in 1..Len(clipboard_data) :
             LET source == Append(clipboard_data[k].at, clipboard_data[k].name)
                 target == Append(current_path, clipboard_data[k].name)
             IN (/\ Len(clipboard_data) = 1
                 /\ clipboard_data[k].at = cwd
                 /\ clipboard_data[k].at # current_path
                 /\ IsFile(nodes, source)
                 /\ ~IsDir(nodes, target))
                => /\ IsFile(nodes', target)
                   /\ SizeOf(nodes', target) = SizeOf(nodes, source)]_vars

\* ------------------------------------------------------------------------
\* Font size
\* ------------------------------------------------------------------------
\* increase_font_size without the test against MAX_FONT_SIZE.
increase_font_size_unbounded(size) == [font_size |-> size + 1, updated |-> TRUE]

\* FileExplorer.increase_font_size: the new cfg.font_size, and whether
\* update_font_size was called.
increase_font_size(size) ==
    IF size < MAX_FONT_SIZE
    THEN [font_size |-> size + 1, updated |-> TRUE]
    ELSE [font_size |-> size, updated |-> FALSE]

\* FileExplorer.decrease_font_size
decrease_font_size(size) ==
    IF size > MIN_FONT_SIZE
    THEN [font_size |-> size - 1, updated |-> TRUE]
    ELSE [font_size |-> size, updated |-> FALSE]

FontDone(name, r) ==
    /\ font_size' = r.font_size
    /\ op' = [name |-> name, updated |-> r.updated, was |-> font_size]
    /\ UNCHANGED <<nodes, current_path, show_hidden, cache, rows, errors, listed,
                   search_mode, url_bar_label>>
    /\ UNCHANGED <<context_menu, selected, clipboard_data, cwd>>
    /\ UNCHANGED <<evVars, pathVars, navVars>>

IncreaseFontSize == FontDone("increase_font_size", increase_font_size(font_size))

DecreaseFontSize == FontDone("decrease_font_size", decrease_font_size(font_size))

\* The explorer started with a font size of the settings within the limits.
FontInit ==
    /\ \E size \in MIN_FONT_SIZE..MAX_FONT_SIZE : FsIdleWith(size)
    /\ EvStart
    /\ PathStart("local")

FontNext ==
    \/ IncreaseFontSize
    \/ DecreaseFontSize

SpecFont == FontInit /\ [][FontNext]_vars

\* C26: started within [MIN_FONT_SIZE, MAX_FONT_SIZE] = [4, 40], the font size
\* stays within these limits under increase_font_size and decrease_font_size;
\* each of them changes it by exactly one and updates the styles, or at its
\* limit leaves it unchanged and updates nothing.
C26_FontSizeWithinLimits ==
    /\ [](font_size \in MIN_FONT_SIZE..MAX_FONT_SIZE)
    /\ [][/\ op'.name = "increase_font_size"
             => IF font_size = MAX_FONT_SIZE
                THEN font_size' = font_size /\ ~op'.updated
                ELSE font_size' = font_size + 1 /\ op'.updated
          /\ op'.name = "decrease_font_size"
             => IF font_size = MIN_FONT_SIZE
                THEN font_size' = font_size /\ ~op'.updated
                ELSE font_size' = font_size - 1 /\ op'.updated]_vars

\* increase_font_size was called at the upper limit and changed nothing.
C26_Witness ==
    /\ op.name = "increase_font_size"
    /\ op.was = MAX_FONT_SIZE
    /\ font_size = MAX_FONT_SIZE
    /\ ~op.updated

\* ------------------------------------------------------------------------
\* Single entries of the FTP adapter
\* ------------------------------------------------------------------------
\* self._cache[path]: the entries cached under the key (at most one).
CacheGet(c, key) == {x[2] : x \in {y \in c : y[1] = key}}

\* FTPFileSystem.get_file_or_folder(path): a miss lists `path` itself
\* (ftp.cwd(path) fails with error_perm unless it is a folder), caches the
\* entries found under path + "/" + name, and then reads self._cache[path].
FTP_get_file_or_folder(t, path, items, c) ==
    IF CacheGet(c, path) # {}
    THEN [raised |-> "none", found |-> CacheGet(c, path), cache |-> c]
    ELSE IF ~IsDir(t, PathOf(path))
    THEN [raised |-> "error_perm", found |-> {}, cache |-> c]
    ELSE LET r == FTP_list_contents(t, path, FALSE, items, c)
             keyed == {<<path \o <<Slash>> \o r.contents[k].name, r.contents[k]>> :
                          k \in 1..Len(r.contents)}
             c2 == {x \in r.cache : \A y \in keyed : y[1] # x[1]} \cup keyed
         IN IF CacheGet(c2, path) # {}
            THEN [raised |-> "none", found |-> CacheGet(c2, path), cache |-> c2]
            ELSE [raised |-> "KeyError", found |-> {}, cache |-> c2]

\* fs.get_file_or_folder(path) of the FTP adapter, for a path of the server.
FtpGetFileOrFolder(path) ==
    \E items \in Perms(FTP_mlsd(nodes, path)) :
        LET r == FTP_get_file_or_folder(nodes, path, items, cache)
        IN /\ listed' = IF r.raised = "none" THEN <<CHOOSE e \in r.found : TRUE>>
                        ELSE <<>>
           /\ cache' = r.cache
           /\ op' = [name |-> "ftp_get_file_or_folder", path |-> path,
                     raised |-> r.raised, cached |-> CacheGet(cache, path) # {}]
           /\ UNCHANGED <<nodes, current_path, show_hidden, rows, errors,
                          search_mode, url_bar_label>>
           /\ UNCHANGED NotFs

StatNext ==
    \/ \E d \in Dirs(nodes), rec \in BOOLEAN : ListContents("FTP", d, rec)
    \/ \E n \in nodes : FtpGetFileOrFolder(PathStr(n.path))
    \/ FtpGetFileOrFolder(PathStr(Root))

SpecStat == ListInit /\ [][StatNext]_vars

\* C23: FTPFileSystem.get_file_or_folder(path) returns the File or Folder that
\* describes path, for every path that exists on the server, whether or not
\* the folder that contains it was listed before.
C23_FtpGetFileOrFolder ==
    [][(/\ op'.name = "ftp_get_file_or_folder"
        /\ Exists(nodes, PathOf(op'.path)))
       => /\ op'.raised = "none"
          /\ Len(listed') = 1
          /\ listed'[1].path = op'.path
          /\ listed'[1].cls = (IF IsDir(nodes, PathOf(op'.path)) THEN "Folder"
                               ELSE "File")]_vars

\* C23 for the paths whose entry is in the cache: the folder that contains
\* them was listed before.
C23_AfterListing ==
    [][(/\ op'.name = "ftp_get_file_or_folder"
        /\ op'.cached)
       => /\ op'.raised = "none"
          /\ Len(listed') = 1
          /\ listed'[1].path = op'.path
          /\ listed'[1].cls = (IF IsDir(nodes, PathOf(op'.path)) THEN "Folder"
                               ELSE "File")]_vars

\* ------------------------------------------------------------------------
\* The details pane of the Tk front end
\* ------------------------------------------------------------------------
\* Path(path), as the value a caller hands over for select_item.
PathObject(path) == [cls |-> "Path", path |-> path]

\* None, as the value of select_item.
NoSelectItem == [cls |-> "NoneType", path |-> <<>>]

\* x == y of Python for a Path and an entry: Path.__eq__ answers only for
\* paths, File and Folder define no __eq__, so objects of different classes
\* are not equal.
PyEq(x, y) == x.cls = y.cls /\ x = y

\* TkFrontend.details_pane_set_contents(entries, select_item): the rows
\* inserted and the selection, which each selection_set replaces.
RECURSIVE set_contents_loop(_, _, _, _, _, _, _)
set_contents_loop(adapter, entries, select_item, show, first_seen, out, sel) ==
    IF entries = <<>> THEN [rows |-> out, selected |-> sel]
    ELSE LET entry == Head(entries)
         IN IF ~show /\ is_hidden(adapter, entry.path)
            THEN set_contents_loop(adapter, Tail(entries), select_item, show,
                                   first_seen, out, sel)
            ELSE set_contents_loop(adapter, Tail(entries), select_item, show, TRUE,
                    Append(out, Row(entry)),
                    IF select_item = NoSelectItem
                    THEN (IF ~first_seen THEN <<entry.name>> ELSE sel)
                    ELSE IF PyEq(select_item, entry) THEN <<entry.name>> ELSE sel)

details_pane_set_contents(adapter, entries, select_item, show) ==
    set_contents_loop(adapter, entries, select_item, show, FALSE, <<>>, <<>>)

\* The names of the entries of the pane: plain ones and one with a leading dot.
PaneNames == {<<"a">>, <<".", "b">>}

\* A refresh of the details pane with the sorted listing of current_path of
\* the adapter, and the entry to keep selected (or None).
DetailsPaneSetContents(adapter, select_item) ==
    \E found \in Perms(Scan(adapter, nodes, PathStr(current_path), FALSE)) :
        LET r == list_contents(adapter, nodes, PathStr(current_path), FALSE, found, cache)
            v == details_pane_set_contents(adapter, sorted(r.contents), select_item,
                                           show_hidden)
        IN /\ rows' = v.rows
           /\ selected' = v.selected
           /\ cache' = r.cache
           /\ op' = [name |-> "details_pane_set_contents", adapter |-> adapter,
                     select_item |-> select_item]
           /\ UNCHANGED <<nodes, current_path, show_hidden, errors, listed,
                          search_mode, url_bar_label>>
           /\ UNCHANGED <<context_menu, font_size, clipboard_data, cwd>>
           /\ UNCHANGED <<evVars, pathVars, navVars>>

\* fs.is_hidden(path) of an adapter, for the path of an entry.
IsHidden(adapter, path) ==
    /\ op' = [name |-> "is_hidden", adapter |-> adapter, path |-> path,
              result |-> is_hidden(adapter, path)]
    /\ UNCHANGED <<nodes, current_path, show_hidden, cache, rows, errors, listed,
                   search_mode, url_bar_label>>
    /\ UNCHANGED NotFs

\* The paths list_contents reports below the root: up to two names deep.
PanePaths ==
    {PathStr(p) : p \in {<<n>> : n \in PaneNames}
                        \cup {<<n, m>> : n \in PaneNames, m \in PaneNames}}

PaneInit == FsStart(PaneNames, {FALSE, TRUE}) /\ EvStart /\ PathStart("local")

PaneNext ==
    \/ \E adapter \in Adapters :
          \E select_item \in {NoSelectItem} \cup {PathObject(p) : p \in PanePaths} :
             DetailsPaneSetContents(adapter, select_item)
    \/ \E adapter \in Adapters : \E path \in PanePaths : IsHidden(adapter, path)

SpecPane == PaneInit /\ [][PaneNext]_vars

\* C22: when select_item is the path of an entry that is displayed after the
\* refresh, the row of that entry is the selected one, wherever it sits in the
\* list.
C22_SelectionSurvivesRefresh ==
    [][(/\ op'.name = "details_pane_set_contents"
        /\ op'.select_item # NoSelectItem)
       => \A k \in 1..Len(rows') :
             rows'[k].path = op'.select_item.path => selected' = <<rows'[k].name>>]_vars

\* The other half of the sentence of the specification: with no select_item
\* the first row displayed is selected.
C22_FirstRowSelected ==
    [][(/\ op'.name = "details_pane_set_contents"
        /\ op'.select_item = NoSelectItem
        /\ rows' # <<>>)
       => selected' = <<rows'[1].name>>]_vars

\* C24: on a platform without hidden flags is_hidden(path) is true exactly when
\* the last component of path begins with ".", for both adapters and every
\* absolute path of an entry, and with show_hidden_files off no row whose name
\* begins with "." is displayed.
C24_HiddenIsLeadingDot ==
    /\ op.name = "is_hidden"
       => (op.result <=> StartsWith(Last(PathOf(op.path)), "."))
    /\ (op.name = "details_pane_set_contents" /\ ~show_hidden)
       => \A k \in 1..Len(rows) : ~StartsWith(rows[k].name, ".")

\* C24 for the local adapter.
C24_LocalHiddenIsLeadingDot ==
    /\ (op.name = "is_hidden" /\ op.adapter = "local")
       => (op.result <=> StartsWith(Last(PathOf(op.path)), "."))
    /\ (op.name = "details_pane_set_contents" /\ op.adapter = "local" /\ ~show_hidden)
       => \A k \in 1..Len(rows) : ~StartsWith(rows[k].name, ".")

\* ------------------------------------------------------------------------
\* Properties of navigation
\* ------------------------------------------------------------------------
\* The rows of the ordinary listing of folder d of tree t.
ListingOf(t, d) == FileExplorer_load_files(t, SomeOrder(Children(t, d)), FALSE)

\* C15: navigate_to(path) with a path that does not exist or is no folder shows
\* one error dialog and changes nothing: current_path, the display mode, the
\* URL bar and its label, the listing, the title and the highlighted bookmarks
\* are as before, and nothing is delivered on current_path_changed.
C15_NavigateToInvalidPath ==
    [][(/\ op'.name \in {"navigate_to", "navigate_to_selected_bookmark"}
        /\ ~(Exists(nodes, PathOf(op'.arg)) /\ IsDir(nodes, PathOf(op'.arg))))
       => /\ Len(errors') = 1
          /\ current_path' = current_path
          /\ search_mode' = search_mode
          /\ url_bar_label' = url_bar_label
          /\ url_bar' = url_bar
          /\ rows' = rows
          /\ title' = title
          /\ highlighted' = highlighted
          /\ op'.produced = 0
          /\ calls' = <<>>
          /\ op'.raised = "none"]_vars

\* The bookmark "Home" points to a file or to nothing; it was selected in
\* search mode, in a folder below the root: the error was shown and the search
\* view of that folder is still there.
C15_Witness ==
    /\ op.name = "navigate_to_selected_bookmark"
    /\ ~IsDir(nodes, PathOf(op.arg))
    /\ Len(errors) = 1
    /\ search_mode
    /\ url_bar_label = "Search:"
    /\ current_path # Root

\* C16: when a navigation moves current_path into a folder whose listing the OS
\* refuses, the reload of the details pane shows the failure and raises
\* nothing: the handler goes on, and a delivery on current_path_changed reaches
\* every listener.
C16_ListingFailureIsShown ==
    [][(/\ op'.name \in NavHandlers
        /\ current_path' # current_path
        /\ current_path' \in unreadable)
       => /\ op'.raised = "none"
          /\ delivery' # "raised"
          /\ IsMixIns => Len(calls') = Len(listeners["current_path_changed"])
          /\ \/ errors' # <<>>
             \/ \E k \in 1..Len(rows') : rows'[k].type = "Error"]_vars

\* After a navigation that succeeded, the views show current_path. The title is
\* compared for FileExplorer, which sets it in on_current_path_change; among
\* the mix-ins no listener sets it.
ViewsReflectNavigation ==
    (/\ op'.name \in NavHandlers
     /\ op'.raised = "none"
     /\ errors' = <<>>
     /\ \/ current_path' # current_path
        \/ op'.name = "select_file_system")
    => /\ url_bar' = PathStr(current_path')
       /\ ~IsMixIns => title' = window_title(current_path')
       /\ rows' = ListingOf(MountTree(current_file_system', nodes), current_path')
       /\ \A b \in bookmarks : PathOf(b.path) = current_path' => b.label \in highlighted'

\* C17: after every navigation that completed (navigate_to, go_up, a double
\* click on a folder, a bookmark or a mount selected) the URL bar is
\* str(current_path), the title is formatted from current_path, the details
\* pane lists current_path in the selected file system, and a bookmark whose
\* path is current_path is highlighted.
C17_ViewsReflectCurrentPath == [][ViewsReflectNavigation]_vars

\* C17 for the FileExplorer controller.
C17_FileExplorerViews == [][~IsMixIns => ViewsReflectNavigation]_vars

\* C18: selecting "FS:<name>" in the navigation pane makes <name> the current
\* file system, sets current_path to the root "/" of the mount and produces
\* current_path_changed once, whatever current_path was.
C18_SelectFileSystem ==
    [][op'.name = "select_file_system"
       => /\ current_file_system' = op'.arg
          /\ current_path' = Root
          /\ op'.produced = 1]_vars

\* The mount "ftp" was selected while a folder below the root of "/" was shown.
C18_Witness ==
    /\ op.name = "select_file_system"
    /\ op.arg = "ftp"
    /\ op.was # Root
    /\ current_file_system = "ftp"
    /\ current_path = Root

\* C19: search mode is entered only by a search with a term that is not empty;
\* a cancelled dialog or an empty term leaves list mode, the listing and the
\* label of the URL bar as they were.
C19_SearchNeedsTerm ==
    [][(op'.name = "search" /\ op'.view = "FileExplorer" /\ ~search_mode)
       => /\ search_mode' => op'.term \notin {None, <<>>}
          /\ op'.term \in {None, <<>>}
             => /\ ~search_mode'
                /\ rows' = rows
                /\ url_bar_label' = url_bar_label]_vars

\* C19 for a cancelled dialog alone.
C19_CancelledSearch ==
    [][(op'.name = "search" /\ op'.view = "FileExplorer" /\ op'.term = None)
       => /\ search_mode' = search_mode
          /\ rows' = rows
          /\ url_bar_label' = url_bar_label]_vars

\* C20: when a navigation changes current_path in search mode, the controller
\* is in list mode afterwards: search_mode is false, the label of the URL bar
\* is "Location:" and the ordinary listing of the new path is shown.
C20_NavigationLeavesSearch ==
    [][(/\ op'.name \in NavHandlers
        /\ search_mode
        /\ current_path' # current_path
        /\ op'.raised = "none")
       => /\ ~search_mode'
          /\ url_bar_label' = "Location:"
          /\ rows' = ListingOf(nodes, current_path')]_vars

\* C20 for the listing alone: the ordinary listing of the new path is shown.
C20_ListingRestored ==
    [][(/\ op'.name \in NavHandlers
        /\ search_mode
        /\ current_path' # current_path
        /\ op'.raised = "none")
       => rows' = ListingOf(nodes, current_path')]_vars

C21_EscapeLeavesSearch ==
    [][(/\ op'.name = "handle_escape_key"
        /\ search_mode
        /\ context_menu # "posted"
        /\ op'.raised = "none")
       => /\ ~search_mode'
          /\ url_bar_label' = "Location:"
          /\ rows' = ListingOf(nodes, current_path)]_vars

\* C21 as long as no context menu was opened since the start.
C21_EscapeBeforeAnyMenu ==
    [][(/\ op'.name = "handle_escape_key"
        /\ search_mode
        /\ context_menu = "None"
        /\ op'.raised = "none")
       => /\ ~search_mode'
          /\ url_bar_label' = "Location:"
          /\ rows' = ListingOf(nodes, current_path)]_vars

\* ------------------------------------------------------------------------
\* Properties of listings and views
\* ------------------------------------------------------------------------
\* C7: list_contents(path) returns one entry for each immediate child of path,
\* list_contents(path, recursive=True) one for each descendant of path at every
\* depth, for the local and for the FTP adapter.
C7_ListContentsComplete ==
    op.name = "list_contents" =>
        LET want == IF op.recursive THEN Descendants(nodes, op.dir)
                    ELSE Children(nodes, op.dir)
        IN /\ PathsIn(listed) = {PathStr(q) : q \in want}
           /\ NoRepeats(listed)

\* C7 without the recursive listing of the FTP adapter.
C7_ExceptFtpRecursive ==
    (op.name = "list_contents" /\ ~(op.adapter = "FTP" /\ op.recursive)) =>
        C7_ListContentsComplete

\* A recursive listing of a folder that has entries below its children.
C7_Witness ==
    /\ op.name = "list_contents"
    /\ op.recursive
    /\ Descendants(nodes, op.dir) # Children(nodes, op.dir)

\* C5: the rows of a listing (an ordinary load or a search view) show every
\* folder above every file, and folders and files each in ascending order of
\* their names by code point.
C5_FoldersFirstThenByName ==
    op.name \in {"load_files", "search"} =>
        \A i, j \in 1..Len(rows) :
            i < j =>
                /\ ~(rows[i].type = "File" /\ rows[j].type = "Folder")
                /\ rows[i].type = rows[j].type => ~StrLess(rows[j].name, rows[i].name)

\* A file named "Ba" and a folder named "a" with a folder "Ba" are listed: the
\* folders come first though "Ba" sorts before "a", and "Ba" before "a" among
\* the folders though a comparison without case would say otherwise.
C5_Witness ==
    /\ op.name \in {"load_files", "search"}
    /\ Len(rows) = 3
    /\ rows[1].type = "Folder" /\ rows[1].name = <<"B", "a">>
    /\ rows[2].type = "Folder" /\ rows[2].name = <<"a">>
    /\ rows[3].type = "File"

\* C6: a search for a term shows the entries below current_path, at every depth,
\* whose name contains the term when case is ignored, and no others.
C6_SearchShowsMatchingDescendants ==
    (op.name = "search" /\ op.term # None) =>
        /\ PathsIn(rows) =
              {PathStr(q) : q \in {d \in Descendants(nodes, current_path) :
                                      Matches(op.term, PathName(d))}}
        /\ NoRepeats(rows)

\* C6 for the search view of the frontend over the local adapter.
C6_LocalSearchView ==
    (op.name = "search" /\ op.view = "TkFrontend" /\ op.adapter = "local") =>
        C6_SearchShowsMatchingDescendants

EvInit == EvStart /\ PathStart("local") /\ FsIdle

SpecEvents == EvInit /\ [][EvNext]_vars

\* ------------------------------------------------------------------------
\* Properties of the event bus
\* ------------------------------------------------------------------------
\* The callbacks registered on a channel, in the order of the consumed_by calls.
RegisteredOn(ch) ==
    LET sel == SelectSeq(registered, LAMBDA r : r.ch = ch)
    IN [k \in 1..Len(sel) |-> sel[k].cb]

\* The callbacks invoked by the produce() call(s) running at nesting depth d.
InvokedAt(d) ==
    LET sel == SelectSeq(calls, LAMBDA c : c.depth = d)
    IN [k \in 1..Len(sel) |-> sel[k].cb]

IsPrefix(s, t) == Len(s) <= Len(t) /\ s = SubSeq(t, 1, Len(s))

\* C1: a produce() that returns has invoked the listeners registered on its
\* channel, in registration order, once per registration (the invocations made by
\* the producer's own call are exactly the registration list), and at no time is
\* a callback invoked that was not registered on that channel.
C1_ProduceInvokesAllInOrder ==
    /\ delivery = "returned" => InvokedAt(1) = RegisteredOn(channel)
    /\ delivery = "delivering" => IsPrefix(InvokedAt(1), RegisteredOn(channel))
    /\ \A k \in 1..Len(calls) :
          /\ calls[k].ch = channel
          /\ \E j \in 1..Len(registered) :
                registered[j] = [ch |-> channel, cb |-> calls[k].cb]

\* Two different listeners on the produced channel, in an order a sort would
\* change, and a third callback registered on the other channel only.
C1_Witness ==
    /\ delivery = "returned"
    /\ RegisteredOn(channel) = <<"g", "f">>
    /\ calls # <<>>
    /\ \E j \in 1..Len(registered) :
          registered[j].ch # channel /\ registered[j].cb = "w"

\* C2: a listener that raises is the last one invoked in the delivery: the
\* exception leaves every active produce() (the producer sees it), the listeners
\* registered before it were invoked once each, in order, those after it not.
C2_RaiseAbortsDelivery ==
    /\ \A k \in 1..Len(calls) :
          Kind(calls[k].cb) = "raise" =>
             /\ k = Len(calls)
             /\ delivery = "raised"
             /\ stack = <<>>
    /\ delivery = "raised" =>
          /\ calls # <<>>
          /\ Kind(calls[Len(calls)].cb) = "raise"
          /\ IsPrefix(InvokedAt(1), RegisteredOn(channel))
          /\ (\A k \in 1..Len(calls) : calls[k].depth = 1) =>
                [k \in 1..Len(calls) |-> calls[k].cb]
                   = SubSeq(RegisteredOn(channel), 1, Len(calls))

\* The second of three listeners raised: the first was invoked, the third not.
C2_Witness ==
    /\ delivery = "raised"
    /\ RegisteredOn(channel) = <<"f", "r", "g">>
    /\ [k \in 1..Len(calls) |-> calls[k].cb] = <<"f", "r">>

\* The first position after p at which the delivery is back at the nesting depth
\* of calls[p] or above it; 0 if there is none yet.
BackAt(p) ==
    LET later == {q \in (p + 1)..Len(calls) : calls[q].depth <= calls[p].depth}
    IN IF later = {} THEN 0 ELSE CHOOSE q \in later : \A q2 \in later : q <= q2

\* The callbacks invoked by the produce() that calls[p] made, up to position `to`.
NestedOf(p, to) ==
    LET idx == SelectSeq([q \in 1..(to - p) |-> p + q],
                         LAMBDA q : calls[q].depth = calls[p].depth + 1)
    IN [k \in 1..Len(idx) |-> calls[idx[k]].cb]

\* C3: there is no re-entrancy guard. A listener that calls produce() on its own
\* channel starts a nested delivery that begins with the first listener, and the
\* outer delivery invokes its next listener only after the nested one went
\* through the whole list; once a listener that calls produce() unconditionally
\* was invoked, the delivery never ends.
C3_ReentrantDelivery ==
    /\ \A p \in 1..Len(calls) :
          (Behaviour(calls[p].cb, calls[p].depth) = "produce" /\ p < Len(calls)) =>
             /\ calls[p + 1].depth = calls[p].depth + 1
             /\ calls[p + 1].cb = RegisteredOn(channel)[1]
             /\ IF BackAt(p) = 0
                THEN IsPrefix(NestedOf(p, Len(calls)), RegisteredOn(channel))
                ELSE /\ NestedOf(p, BackAt(p) - 1) = RegisteredOn(channel)
                     /\ calls[BackAt(p)].depth = calls[p].depth
    /\ (\E k \in 1..Len(calls) : Kind(calls[k].cb) = "reenter") =>
          delivery = "delivering" /\ stack # <<>>

\* A nested delivery that completed before the outer one went on (w, f: w,f are
\* delivered again inside w, then the outer f), and one that never ends (u).
C3_Witness ==
    \/ /\ delivery = "returned"
       /\ [k \in 1..Len(calls) |-> calls[k].cb] = <<"w", "w", "f", "f">>
       /\ [k \in 1..Len(calls) |-> calls[k].depth] = <<1, 2, 2, 1>>
    \/ /\ Len(stack) = MaxDepth
       /\ RegisteredOn(channel) = <<"f", "u">>
       /\ Len(calls) = 2 * MaxDepth - 1

====
